---- MODULE Spec2Model ----
(***************************************************************************)
(* CortexLTM memory consolidation pipeline: the rolling summarizer         *)
(* (cortexltm/summaries.py) and the master-memory write path               *)
(* (cortexltm/master_memory.py) over the store tables ltm_events,          *)
(* ltm_thread_summaries, ltm_master_items and ltm_master_evidence.         *)
(*                                                                         *)
(* One conversation (thread) is modelled.  Every function that talks to    *)
(* the store is cut into steps at its transaction boundaries, so that the  *)
(* side-effect workers can interleave exactly where the code lets them.    *)
(***************************************************************************)
EXTENDS Integers, Sequences, FiniteSets, Bags, TLC

\* ------------------------------------------------------------------------
\* Bounds of the model
\* ------------------------------------------------------------------------
MaxEvents == 4
MaxNow == 180
MaxEvidence == 2
MaxSummaries == 2
MaxUpserts == 3
MaxPieces == 3        \* pieces of a text handed to the scorer
MaxTasks == 2         \* side-effect tasks submitted to the pool
MaxTurns == 25        \* turns of the conversation that is told turn by turn
\* llm.py line 19 sets _MAX_CONTEXT_MESSAGES = 20 and api.py lines 65 and 598
\* set the default short-term limit to 30 and its cap to 200; the model runs
\* with smaller values in the same order
_MAX_CONTEXT_MESSAGES == 3
DEFAULT_SHORT_TERM_LIMIT == 4
SHORT_TERM_CAP == 5
\* the clock advances in steps of TickSeconds
TickSeconds == 90
\* summaries.py line 16 sets MEANINGFUL_TARGET = 12; the model runs with a
\* smaller target so that a second and a third reach of it fit in MaxEvents
\* events.
MEANINGFUL_TARGET == 2
\* summaries.py line 17 sets FETCH_LOOKBACK = 120; the model runs with one
\* below MaxEvents so that the cap of the fetch bites.
FETCH_LOOKBACK == 3

\* ------------------------------------------------------------------------
\* Program constants, with the program's values
\* ------------------------------------------------------------------------
\* TOPIC_SHIFT_COSINE_MIN = 0.75 as the fraction 3/4
TOPIC_SHIFT_COSINE_NUM == 3
TOPIC_SHIFT_COSINE_DEN == 4
MIN_SUMMARY_UPDATE_SECONDS == 180
\* MEANINGFUL_TARGET and FETCH_LOOKBACK with the program's values, for the
\* conversation that is told turn by turn
MEANINGFUL_TARGET_FULL == 12
FETCH_LOOKBACK_FULL == 120

Workers == {"w1", "w2"}
THREAD == "t1"
THREAD_USER == "u1"

\* ------------------------------------------------------------------------
\* Event contents.  A content is a token with the features the classifier
\* reads: its stripped length, membership of the trivial set, presence of a
\* strong phrase, presence of an alphanumeric character.
\*   "ok"      the trivial reply "ok"
\*   "strong"  a 45 character user text containing "my name is"
\*   "long"    a 90 character assistant reply
\*   "plan"    the 7 character user text "my plan"
\*   "recap"   the 12 character user text "recap please"
\*   "recall"  the 14 character user text "what did i say"
\*   "both"    the 20 character user text "recap what did i say"
\*   ""        the empty text (also stands for an absent assistant event)
\* ------------------------------------------------------------------------
UserContents == {"ok", "strong"}
AssistantContents == {"long"}

Len_(c) ==
    CASE c = "" -> 0
      [] c = "ok" -> 2
      [] c = "strong" -> 45
      [] c = "long" -> 90
      [] c = "plan" -> 7
      [] c = "recap" -> 12
      [] c = "recall" -> 14
      [] c = "both" -> 20

InTrivialSet(c) == c = "ok"
HasStrongPhrase(c) == c \in {"strong", "plan"}
HasAlnum(c) == c # ""

\* len((u + "\n" + a).strip())
ComboLen(u, a) ==
    IF Len_(u) = 0 THEN Len_(a)
    ELSE IF Len_(a) = 0 THEN Len_(u)
    ELSE Len_(u) + 1 + Len_(a)

is_meaningful_turn(u, a) ==
    IF Len_(u) = 0 /\ Len_(a) = 0 THEN FALSE
    ELSE IF InTrivialSet(u) /\ Len_(a) < 80 THEN FALSE
    ELSE IF ComboLen(u, a) < 40 THEN FALSE
    ELSE IF HasStrongPhrase(u) THEN TRUE
    ELSE (HasAlnum(u) \/ HasAlnum(a)) /\ ComboLen(u, a) >= 80

\* ------------------------------------------------------------------------
\* Embedding vectors and cosine similarity
\* ------------------------------------------------------------------------
NoVec == <<>>
Vectors == {<<1, 0>>, <<1, 1>>}

Dot(a, b) == a[1] * b[1] + a[2] * b[2]

\* _cosine_similarity(a, b) < TOPIC_SHIFT_COSINE_MIN, in integers:
\* sim is 0.0 when the denominator is 0; otherwise dot / sqrt(na * nb).
CosineBelowMin(a, b) ==
    LET dot == Dot(a, b)
        na == Dot(a, a)
        nb == Dot(b, b)
    IN  IF na * nb = 0 THEN TRUE
        ELSE IF dot < 0 THEN TRUE
        ELSE TOPIC_SHIFT_COSINE_DEN * TOPIC_SHIFT_COSINE_DEN * dot * dot
               < TOPIC_SHIFT_COSINE_NUM * TOPIC_SHIFT_COSINE_NUM * na * nb

\* ------------------------------------------------------------------------
\* State
\* ------------------------------------------------------------------------
VARIABLES
    events,      \* ltm_events of the thread, in created_at order; id = index
    summaries,   \* ltm_thread_summaries rows of the thread; id = index
    master,      \* ltm_master_items rows; id = index
    evidence,    \* ltm_master_evidence rows; id = index
    now,         \* wall clock, seconds
    task,        \* per worker: the call it is running and its locals
    upserted,    \* history: bag of dedup keys of the upserts that returned an id
    threads,     \* ltm_threads: ids of the threads that exist
    queue,       \* side-effect tasks submitted to the pool and not yet started
    call,        \* the latest add_event call: its arguments, row and outcome
    reactions,   \* ltm_event_reactions: one row per (event_id, user_id)
    reply        \* the latest context built and the messages sent for a reply

vars == <<events, summaries, master, evidence, now, task, upserted, threads,
         queue, call, reactions, reply>>

\* Optional values are sequences of length 0 or 1.
None == <<>>
Some(x) == <<x>>

\* no add_event call has been made yet
NoCall ==
    [actor |-> "", content |-> "", importance_score |-> 0, emb |-> NoVec,
     ret |-> "none", id |-> 0, dispatched |-> <<>>, submitted |-> 0,
     embed |-> FALSE, raised_in |-> ""]

\* no context has been built yet
NoReply ==
    [route |-> "none", text |-> "", limit |-> None, context |-> <<>>, msgs |-> <<>>,
     req |-> None, rows |-> {}]

Idle ==
    [op |-> "idle", pc |-> "idle", active |-> None, turns |-> <<>>, n |-> 0,
     args |-> None, emb |-> NoVec, row |-> 0, ret |-> "none", wrote |-> "none",
     t0 |-> 0, called |-> {}, check |-> "none", llm |-> "none"]

Init ==
    /\ events = <<>>
    /\ summaries = <<>>
    /\ master = <<>>
    /\ evidence = <<>>
    /\ now = 0
    /\ task = [w \in Workers |-> Idle]
    /\ upserted = EmptyBag
    /\ threads = {THREAD}
    /\ queue = <<>>
    /\ call = NoCall
    /\ reactions = {}
    /\ reply = NoReply

\* ------------------------------------------------------------------------
\* Small helpers
\* ------------------------------------------------------------------------
Min2(a, b) == IF a < b THEN a ELSE b
Max2(a, b) == IF a > b THEN a ELSE b
MinOf(S) == CHOOSE x \in S : \A y \in S : x <= y
Take(s, n) == SubSeq(s, 1, Min2(n, Len(s)))
Last(s) == s[Len(s)]

\* jsonb "meta || patch": keys of the patch win
Merge(m, p) ==
    [k \in (DOMAIN m) \cup (DOMAIN p) |-> IF k \in DOMAIN p THEN p[k] ELSE m[k]]

\* what one call of embed_text can do: return a vector, or raise (NoVec)
EmbedResults == Vectors \cup {NoVec}

\* ------------------------------------------------------------------------
\* summaries.py: reads
\* ------------------------------------------------------------------------
ActiveIds == {i \in 1..Len(summaries) : summaries[i].is_active}

\* _get_active_summary: "where is_active = true limit 1" returns any active row
ActiveOpt ==
    IF ActiveIds = {} THEN {None} ELSE {Some(summaries[i]) : i \in ActiveIds}

NeverDebounce(active) == FALSE

_should_debounce_summary(active) ==
    /\ active # None
    /\ "last_summary_write_at" \in DOMAIN active[1].meta
    /\ now - active[1].meta["last_summary_write_at"] < MIN_SUMMARY_UPDATE_SECONDS

\* _fetch_events_since: ids of the events created after event `since`
\* (all events when since = 0), oldest first, at most FETCH_LOOKBACK of them
FetchUpTo(since, lookback) ==
    [k \in 1..Min2(lookback, Len(events) - since) |-> since + k]

_fetch_events_since(since) == FetchUpTo(since, FETCH_LOOKBACK)

SinceOf(active) == IF active = None THEN 0 ELSE active[1].range_end_event_id

\* the next assistant event after position i of the fetched list, 0 if none
NextAssistant(evs, i) ==
    LET js == {j \in (i + 1)..Len(evs) : events[evs[j]].actor = "assistant"}
    IN  IF js = {} THEN 0 ELSE evs[MinOf(js)]

TurnAt(evs, i) ==
    LET aid == NextAssistant(evs, i)
        u == events[evs[i]].content
        a == IF aid = 0 THEN "" ELSE events[aid].content
    IN  [user_id |-> evs[i], assistant_id |-> aid, user_text |-> u,
         assistant_text |-> a, meaningful |-> is_meaningful_turn(u, a)]

IsUserTurn(t) == events[t.user_id].actor = "user"
IsMeaningful(t) == t.meaningful

\* every user event of the fetched list paired with the next assistant event
AllTurns(evs) == SelectSeq([i \in 1..Len(evs) |-> TurnAt(evs, i)], IsUserTurn)

UnfilteredTurns(evs, target) == Take(AllTurns(evs), target)

\* maybe_update_summary: the loop stops at the MEANINGFUL_TARGET-th meaningful turn
MeaningfulTurns(evs, target) == Take(SelectSeq(AllTurns(evs), IsMeaningful), target)

\* force_update_summary: meaningful turns if any, else all turns, capped
SelectedTurns(turns) ==
    LET m == SelectSeq(turns, IsMeaningful)
        sel == IF m # <<>> THEN m ELSE turns
    IN  Take(sel, Max2(1, Min2(Len(sel), MEANINGFUL_TARGET)))

StartEventId(turns) == turns[1].user_id
EndEventId(turns) ==
    IF Last(turns).assistant_id # 0 THEN Last(turns).assistant_id
    ELSE Last(turns).user_id

\* the compact turn lines: one per turn, made of the two texts
TurnLines(turns) ==
    [k \in 1..Len(turns) |->
        [user_id |-> turns[k].user_id, assistant_id |-> turns[k].assistant_id,
         u |-> turns[k].user_text, a |-> turns[k].assistant_text]]

\* ------------------------------------------------------------------------
\* Summary texts.  A text records how it was produced and from what:
\*   src    "llm"       the Completion Service's output for (prior, lines)
\*          "fallback"  the concatenation of prior and the lines
\*          "default"   the literal "No durable info yet."
\*   prior  None when no prior summary was handed in, else the user events
\*          whose turns the prior summary was built over
\*   lines  the turn lines handed in
\* ------------------------------------------------------------------------
DefaultText == [src |-> "default", prior |-> None, lines |-> <<>>]

\* the user events whose turns went into a text
Covers(text) ==
    (IF text.prior = None THEN {} ELSE text.prior[1])
        \cup {text.lines[k].user_id : k \in 1..Len(text.lines)}

PriorCover(prior) == IF prior = None THEN None ELSE Some(Covers(prior[1]))

\* what one call of summarize_update can do: return the model's output,
\* return the prior summary / the default because the output is empty, or
\* raise (no API key, the Completion Service fails)
LlmResults == {"ok", "empty", "raised"}

\* a fallback that starts from the new turn lines alone
BuildWithoutPrior(prior, lines, llm) ==
    CASE llm = "ok" -> [src |-> "llm", prior |-> PriorCover(prior), lines |-> lines]
      [] llm = "empty" -> IF prior # None THEN prior[1] ELSE DefaultText
      [] llm = "raised" -> [src |-> "fallback", prior |-> None, lines |-> lines]

\* _build_candidate_summary(prior, lines): the text summarize_update
\* returns; when it raises, the concatenation of the prior summary (if any)
\* and the turn lines
_build_candidate_summary(prior, lines, llm) ==
    CASE llm = "ok" -> [src |-> "llm", prior |-> PriorCover(prior), lines |-> lines]
      [] llm = "empty" -> IF prior # None THEN prior[1] ELSE DefaultText
      [] llm = "raised" ->
            [src |-> "fallback", prior |-> PriorCover(prior), lines |-> lines]

PriorSummary(active) == IF active = None THEN None ELSE Some(active[1].summary)

\* ------------------------------------------------------------------------
\* master_memory.py: texts, enums, normalisation
\* A master-item text is a sequence of characters over a small alphabet.
\* ------------------------------------------------------------------------
BUCKETS ==
    {"PROFILE", "PREFERENCES", "CONSTRAINTS", "COMMUNICATION_STYLE",
     "LONG_RUNNING_CONTEXT", "GOALS", "PROJECTS", "NEXT_ACTIONS", "OPEN_LOOPS"}
STATUSES == {"active", "deprecated", "conflicted"}
STABILITIES == {"high", "med", "low"}

IsSpace(c) == c = " "

LowerChar(c) ==
    CASE c = "A" -> "a"
      [] c = "B" -> "b"
      [] c = "T" -> "t"
      [] c = "OK" -> "ok"
      [] c = "MY NAME IS" -> "my name is"
      [] OTHER -> c

Lower(t) == [i \in 1..Len(t) |-> LowerChar(t[i])]

RECURSIVE LStrip(_)
LStrip(t) == IF t # <<>> /\ IsSpace(t[1]) THEN LStrip(Tail(t)) ELSE t

RECURSIVE RStrip(_)
RStrip(t) ==
    IF t # <<>> /\ IsSpace(t[Len(t)]) THEN RStrip(SubSeq(t, 1, Len(t) - 1)) ELSE t

\* str.strip() and SQL trim()
Strip(t) == RStrip(LStrip(t))

SameTextExact(a, b) == a = b

\* the dedup comparison of the select: lower(trim(text)) = lower(trim(%s))
SameText(a, b) == Lower(Strip(a)) = Lower(Strip(b))

\* (raw or dflt).strip().upper() / .lower() of the raw enum strings in use
StripUpper(raw) ==
    CASE raw = " profile " -> "PROFILE"
      [] raw = "goals" -> "GOALS"
      [] OTHER -> raw

StripLowerOr(raw, dflt) ==
    CASE raw = "" -> dflt
      [] raw = " Active" -> "active"
      [] raw = "HIGH" -> "high"
      [] OTHER -> raw

\* confidences are in hundredths: 0.55 is 55
Clamp01(c) == IF c < 0 THEN 0 ELSE IF c > 100 THEN 100 ELSE c

UpsertValidLax(a) == TRUE

\* the checks of upsert_master_item that raise ValueError before any store access
UpsertValid(a) ==
    /\ a.user_id # ""
    /\ Strip(a.text) # <<>>
    /\ StripUpper(a.bucket) \in BUCKETS
    /\ StripLowerOr(a.status, "active") \in STATUSES
    /\ StripLowerOr(a.stability, "med") \in STABILITIES

DedupKey(user, b, t) == <<user, b, Lower(Strip(t))>>
KeyOfArgs(a) == DedupKey(a.user_id, StripUpper(a.bucket), a.text)
KeyOfRow(r) == DedupKey(r.user_id, r.bucket, r.text)

\* the select of upsert_master_item: ids of the rows with the dedup key
MatchingIds(a) ==
    {i \in 1..Len(master) :
        /\ master[i].user_id = a.user_id
        /\ master[i].bucket = StripUpper(a.bucket)
        /\ SameText(master[i].text, Strip(a.text))}

\* "limit 1": any matching row, 0 when there is none
SelectExisting(a) == IF MatchingIds(a) = {} THEN {0} ELSE MatchingIds(a)

\* embedding = coalesce(new, embedding)
CoalesceClobber(new, old) == new
Coalesce(new, old) == IF new # NoVec THEN new ELSE old

NextCount(n) == n + 1

\* the update statement of upsert_master_item, on the row as it is at write time
UpdatedItem(r, a, emb) ==
    [r EXCEPT !.status = StripLowerOr(a.status, "active"),
              !.stability = StripLowerOr(a.stability, "med"),
              !.confidence = Clamp01(a.confidence),
              !.reinforcement_count = NextCount(r.reinforcement_count),
              !.last_seen_at = now,
              !.last_reinforced_at = now,
              !.meta = Merge(r.meta, a.meta),
              !.embedding = Coalesce(emb, r.embedding)]

\* the insert statement of upsert_master_item
NewItem(a, emb) ==
    [id |-> Len(master) + 1,
     user_id |-> a.user_id,
     bucket |-> StripUpper(a.bucket),
     text |-> Strip(a.text),
     status |-> StripLowerOr(a.status, "active"),
     stability |-> StripLowerOr(a.stability, "med"),
     confidence |-> Clamp01(a.confidence),
     reinforcement_count |-> 1,
     last_seen_at |-> now,
     last_reinforced_at |-> now,
     meta |-> a.meta,
     embedding |-> emb]

\* the write of upsert_master_item given the selected row id (0: none)
UpsertWritten(id, a, emb) ==
    IF id # 0 THEN [master EXCEPT ![id] = UpdatedItem(master[id], a, emb)]
    ELSE Append(master, NewItem(a, emb))

UpsertReturn(id) == IF id # 0 THEN id ELSE Len(master) + 1

\* A weight argument is a number in hundredths (Num(100) is 1.0), the float
\* nan, or a value float() cannot parse.
Num(n) == <<"num", n>>
NaN == <<"nan", 0>>
Unparsable == <<"bad", 0>>

\* float(weight), 1.0 when it raises
ParseWeight(w) == IF w = Unparsable THEN Num(100) ELSE w

FloorNonPositive(w) == IF w[1] = "num" /\ w[2] <= 0 THEN Num(100) ELSE w

\* add_master_evidence: "if w <= 0: w = 1.0"; nan <= 0 is False
EvidenceWeight(w) == FloorNonPositive(ParseWeight(w))

EvidenceValid(e) ==
    /\ e.master_item_id # 0
    /\ (e.thread_id # "" \/ e.event_id # 0 \/ e.summary_id # 0)

NewEvidence(e) ==
    [id |-> Len(evidence) + 1,
     master_item_id |-> e.master_item_id,
     thread_id |-> e.thread_id,
     event_id |-> e.event_id,
     summary_id |-> e.summary_id,
     weight |-> EvidenceWeight(e.weight),
     meta |-> e.meta]

\* ------------------------------------------------------------------------
\* summaries.py: writes
\* ------------------------------------------------------------------------
\* _archive_active_summary: every active row of the thread becomes inactive
_archive_active_summary ==
    [i \in 1..Len(summaries) |-> [summaries[i] EXCEPT !.is_active = FALSE]]

\* _insert_active_summary: a new row with is_active = true
_insert_active_summary(text, start, end, meta, emb) ==
    Append(summaries,
        [id |-> Len(summaries) + 1,
         summary |-> text,
         range_start_event_id |-> start,
         range_end_event_id |-> end,
         meta |-> meta,
         embedding |-> emb,
         is_active |-> TRUE])

\* an update "where thread_id = %s", of every row of the thread
UpdateEveryRow(text, end, patch, emb) ==
    [i \in 1..Len(summaries) |->
        [summaries[i] EXCEPT !.summary = text,
                             !.range_end_event_id = end,
                             !.meta = Merge(@, patch),
                             !.embedding = emb]]

\* _update_active_summary: "where thread_id = %s and is_active = true"
_update_active_summary(text, end, patch, emb) ==
    [i \in 1..Len(summaries) |->
        IF summaries[i].is_active
        THEN [summaries[i] EXCEPT !.summary = text,
                                  !.range_end_event_id = end,
                                  !.meta = Merge(@, patch),
                                  !.embedding = emb]
        ELSE summaries[i]]

SummaryMeta(reason, target) ==
    [reason |-> reason, meaningful_turns |-> target,
     last_summary_write_at |-> now]

ForcedMeta(reason, n) ==
    [reason |-> reason, forced |-> TRUE, meaningful_turns |-> n,
     last_summary_write_at |-> now]

\* the embedding a write stores: the one handed in, else a fresh embed_text
\* call, which may raise (NoVec)
WriteEmbeddings(given) == IF given # NoVec THEN {given} ELSE EmbedResults

\* ------------------------------------------------------------------------
\* _sync_master_from_active_summary
\* ------------------------------------------------------------------------
ThreadRefText == <<"T", "(", THREAD, ")">>

SyncArgs(active) ==
    [user_id |-> THREAD_USER, bucket |-> "LONG_RUNNING_CONTEXT",
     text |-> ThreadRefText, status |-> "active", stability |-> "med",
     confidence |-> 55, embed |-> FALSE,
     meta |-> [source |-> "auto_summary_wire", summary_id |-> active.id,
               summary_excerpt |-> active.summary]]

SyncEvidence(mid, active) ==
    [master_item_id |-> mid, thread_id |-> THREAD, event_id |-> 0,
     summary_id |-> active.id, weight |-> Num(100),
     meta |-> [source |-> "auto_summary_wire"]]

\* ------------------------------------------------------------------------
\* Steps of the calls.  A worker that is idle may start a call; a call ends
\* in pc = "done" with its result in ret ("true", "false", "id", "raised").
\* An upsert_master_item call records in `called` which collaborators it has
\* reached so far: "embed_text", the "select" and the "write" of the store.
\* ------------------------------------------------------------------------
Begin(w, op, a) ==
    [Idle EXCEPT !.op = op, !.active = a, !.t0 = now]

Finish(t, ret) == [t EXCEPT !.pc = "done", !.ret = ret]

SetTask(w, t) == task' = [task EXCEPT ![w] = t]

\* add_event: the insert into ltm_events
AppendEvent(actor, content, max) ==
    /\ Len(events) < max
    /\ events' = Append(events, [actor |-> actor, content |-> content])
    /\ UNCHANGED <<summaries, master, evidence, now, task, upserted, threads, queue, call, reactions, reply>>

AddEvent(actor, content) == AppendEvent(actor, content, MaxEvents)

AddUserEvent == \E c \in UserContents : AddEvent("user", c)
AddAssistantEvent == \E c \in AssistantContents : AddEvent("assistant", c)

Tick ==
    /\ now < MaxNow
    /\ now' = now + TickSeconds
    /\ UNCHANGED <<events, summaries, master, evidence, task, upserted, threads, queue, call, reactions, reply>>

\* maybe_update_summary, lines 537-593: read the active row, debounce,
\* fetch the events since its range end, pair and count the meaningful turns
MaybeRun(w, target, lookback) ==
    /\ task[w].pc = "idle"
    /\ \E a \in ActiveOpt :
          LET evs == FetchUpTo(SinceOf(a), lookback)
              mts == MeaningfulTurns(evs, target)
              t == Begin(w, "maybe", a)
          IN  SetTask(w, IF _should_debounce_summary(a) THEN Finish(t, "false")
                         ELSE IF Len(mts) < target THEN Finish(t, "false")
                         ELSE [t EXCEPT !.pc = "write", !.turns = mts, !.n = target])
    /\ UNCHANGED <<events, summaries, master, evidence, now, upserted, threads, queue, call, reactions, reply>>

MaybeStart(w) == MaybeRun(w, MEANINGFUL_TARGET, FETCH_LOOKBACK)

\* the topic-shift decision of lines 612-629, given what the two embed_text
\* calls returned (NoVec: the call raised)
TopicShift(prior, ea, ec) ==
    prior # None /\ ea # NoVec /\ ec # NoVec /\ CosineBelowMin(ea, ec)

\* how the guarded block of lines 615-629 ended: not entered, left by the
\* exception of an embed_text call, or run to its end
ShiftCheck(prior, ea, ec) ==
    IF prior = None THEN "none"
    ELSE IF ea = NoVec \/ ec = NoVec THEN "failed"
    ELSE "ok"

\* candidate_emb after lines 612-629
CandidateEmb(prior, ea, ec) == IF prior # None /\ ea # NoVec THEN ec ELSE NoVec

\* maybe_update_summary, lines 595-652 and 674-687: the turn lines, the
\* candidate text, the topic-shift decision and the first write
MaybeWrite(w) ==
    /\ task[w].op = "maybe" /\ task[w].pc = "write"
    /\ LET prior == PriorSummary(task[w].active)
           start == StartEventId(task[w].turns)
           end == EndEventId(task[w].turns)
       IN  \E llm \in LlmResults, ea \in EmbedResults, ec \in EmbedResults :
              LET cand == _build_candidate_summary(prior, TurnLines(task[w].turns), llm)
                  t == [task[w] EXCEPT !.check = ShiftCheck(prior, ea, ec),
                                       !.llm = llm]
                  cemb == CandidateEmb(prior, ea, ec)
              IN  IF t.active = None
                  THEN \E e \in WriteEmbeddings(cemb) :
                          IF e = NoVec
                          THEN /\ SetTask(w, Finish(t, "raised"))
                               /\ UNCHANGED summaries
                          ELSE /\ summaries' = _insert_active_summary(
                                      cand, start, end, SummaryMeta("init", t.n), e)
                               /\ SetTask(w, [t EXCEPT !.pc = "sync", !.wrote = "init",
                                                       !.row = Len(summaries) + 1])
                  ELSE IF TopicShift(prior, ea, ec)
                  THEN /\ summaries' = _archive_active_summary
                       /\ SetTask(w, [t EXCEPT !.pc = "episode", !.wrote = "archive"])
                  ELSE \E e \in WriteEmbeddings(cemb) :
                          IF e = NoVec
                          THEN /\ SetTask(w, Finish(t, "raised"))
                               /\ UNCHANGED summaries
                          ELSE /\ summaries' = _update_active_summary(
                                      cand, end, SummaryMeta("rolling_update", t.n), e)
                               /\ SetTask(w, Finish([t EXCEPT !.wrote = "rolling_update"],
                                                    "true"))
    /\ UNCHANGED <<events, master, evidence, now, upserted, threads, queue, call, reactions, reply>>

\* maybe_update_summary, lines 654-668: the new episode after the archive
MaybeEpisode(w) ==
    /\ task[w].op = "maybe" /\ task[w].pc = "episode"
    /\ \E llm \in LlmResults, e \in EmbedResults :
          LET t == [task[w] EXCEPT !.llm = llm]
              text == _build_candidate_summary(None, TurnLines(t.turns), llm)
          IN  IF e = NoVec
              THEN /\ SetTask(w, Finish(t, "raised"))
                   /\ UNCHANGED summaries
              ELSE /\ summaries' = _insert_active_summary(
                          text, StartEventId(t.turns), EndEventId(t.turns),
                          SummaryMeta("topic_shift", t.n), e)
                   /\ SetTask(w, [t EXCEPT !.pc = "sync", !.wrote = "topic_shift",
                                           !.row = Len(summaries) + 1])
    /\ UNCHANGED <<events, master, evidence, now, upserted, threads, queue, call, reactions, reply>>

\* force_update_summary, lines 698-743: read the active row (no debounce),
\* fetch the events since its range end, pair, select
ForceRun(w, lookback) ==
    /\ task[w].pc = "idle"
    /\ \E a \in ActiveOpt :
          LET turns == AllTurns(FetchUpTo(SinceOf(a), lookback))
              t == Begin(w, "force", a)
          IN  SetTask(w, IF turns = <<>>
                         THEN [t EXCEPT !.pc = "sync"]
                         ELSE [t EXCEPT !.pc = "write",
                                        !.turns = SelectedTurns(turns),
                                        !.n = Len(SelectSeq(turns, IsMeaningful))])
    /\ UNCHANGED <<events, summaries, master, evidence, now, upserted, threads, queue, call, reactions, reply>>

\* the calls are counted by the evidence rows their master sync leaves
ForceStart(w) == Len(evidence) < MaxEvidence /\ ForceRun(w, FETCH_LOOKBACK)

\* force_update_summary, lines 745-787: the turn lines, the candidate text,
\* then insert or update
ForceWrite(w) ==
    /\ task[w].op = "force" /\ task[w].pc = "write"
    /\ LET n == task[w].n
       IN  \E llm \in LlmResults, e \in EmbedResults :
              LET t == [task[w] EXCEPT !.llm = llm]
                  cand == _build_candidate_summary(PriorSummary(t.active),
                                                   TurnLines(t.turns), llm)
              IN  IF e = NoVec
                  THEN /\ SetTask(w, Finish(t, "raised"))
                       /\ UNCHANGED summaries
                  ELSE IF t.active = None
                  THEN /\ summaries' = _insert_active_summary(
                              cand, StartEventId(t.turns), EndEventId(t.turns),
                              ForcedMeta("forced_promote_init", n), e)
                       /\ SetTask(w, [t EXCEPT !.pc = "sync", !.wrote = "forced_init",
                                               !.row = Len(summaries) + 1])
                  ELSE /\ summaries' = _update_active_summary(
                              cand, EndEventId(t.turns),
                              ForcedMeta("forced_promote_update", n), e)
                       /\ SetTask(w, [t EXCEPT !.pc = "sync", !.wrote = "forced_update"])
    /\ UNCHANGED <<events, master, evidence, now, upserted, threads, queue, call, reactions, reply>>

\* _sync_master_from_active_summary, then the return of the caller
Sync(w) ==
    /\ task[w].pc = "sync"
    /\ LET ret == IF task[w].wrote = "none" THEN "false" ELSE "true"
       IN  \E a \in ActiveOpt :
              IF a = None
              THEN /\ UNCHANGED <<master, evidence, upserted>>
                   /\ SetTask(w, Finish(task[w], ret))
              ELSE \E id \in SelectExisting(SyncArgs(a[1])) :
                      /\ master' = UpsertWritten(id, SyncArgs(a[1]), NoVec)
                      /\ upserted' = upserted (+) SetToBag({KeyOfArgs(SyncArgs(a[1]))})
                      /\ evidence' = Append(evidence,
                             NewEvidence(SyncEvidence(UpsertReturn(id), a[1])))
                      /\ SetTask(w, Finish(task[w], ret))
    /\ UNCHANGED <<events, summaries, now, threads, queue, call, reactions, reply>>

\* _sync_master_from_active_summary as the statements it runs: the read of
\* the active row and, inside upsert_master_item, the select of the item
SyncSelect(w) ==
    /\ task[w].pc = "sync"
    /\ \E a \in ActiveOpt :
          IF a = None
          THEN SetTask(w, Finish(task[w], IF task[w].wrote = "none" THEN "false"
                                          ELSE "true"))
          ELSE \E id \in SelectExisting(SyncArgs(a[1])) :
                  SetTask(w, [task[w] EXCEPT !.pc = "syncwrite", !.row = id,
                                             !.args = a])
    /\ UNCHANGED <<events, summaries, master, evidence, now, upserted, threads, queue, call, reactions, reply>>

\* the insert or update of upsert_master_item for the row selected, then
\* add_master_evidence, then the return of the caller
SyncWrite(w) ==
    /\ task[w].pc = "syncwrite"
    /\ LET t == task[w]
           a == SyncArgs(t.args[1])
       IN  /\ master' = UpsertWritten(t.row, a, NoVec)
           /\ upserted' = upserted (+) SetToBag({KeyOfArgs(a)})
           /\ evidence' = Append(evidence,
                                 NewEvidence(SyncEvidence(UpsertReturn(t.row), t.args[1])))
           /\ SetTask(w, Finish(t, IF t.wrote = "none" THEN "false" ELSE "true"))
    /\ UNCHANGED <<events, summaries, now, threads, queue, call, reactions, reply>>

\* a pool whose done-callback lets the exception of the task through
ReturnRaising(w) ==
    /\ task[w].pc = "done"
    /\ SetTask(w, Idle)
    /\ call' = IF task[w].ret = "raised" THEN [call EXCEPT !.ret = "raised"] ELSE call
    /\ UNCHANGED <<events, summaries, master, evidence, now, upserted, threads, queue, reactions, reply>>

\* the call returns; in the pool, _on_done (messages.py 208-212) logs the
\* exception of the task and the thread is free again
Return(w) ==
    /\ task[w].pc = "done"
    /\ SetTask(w, Idle)
    /\ UNCHANGED <<events, summaries, master, evidence, now, upserted, threads, queue, call, reactions, reply>>

\* ------------------------------------------------------------------------
\* upsert_master_item as a call of its own (the API, the extractor and the
\* auto-capture task all go through it)
\* ------------------------------------------------------------------------
ManualMeta == [source |-> "manual"]

UpsertArg(user, bucket, text, status, stability, conf, embed) ==
    [user_id |-> user, bucket |-> bucket, text |-> text, status |-> status,
     stability |-> stability, confidence |-> conf, embed |-> embed,
     meta |-> ManualMeta]

\* the calls tried: one fact in several spellings, with and without
\* embedding; the same text for another owner, bucket and text; bad input
UpsertInputs ==
    { UpsertArg("u1", "PROFILE", t, "active", "med", 50, e) :
        t \in {<<"a">>, <<" ", "A", " ">>}, e \in BOOLEAN }
    \cup
    { UpsertArg("u1", " profile ", <<"A">>, " Active", "HIGH", 150, TRUE),
      UpsertArg("u2", "PROFILE", <<"a">>, "", "", 50, FALSE),
      UpsertArg("u1", "goals", <<"a">>, "active", "med", 0 - 5, FALSE),
      UpsertArg("u1", "PROFILE", <<"a", " ", "b">>, "active", "med", 50, FALSE),
      UpsertArg("u1", "BOGUS", <<"a">>, "active", "med", 50, TRUE),
      UpsertArg("", "PROFILE", <<"a">>, "active", "med", 50, TRUE),
      UpsertArg("u1", "PROFILE", <<" ">>, "active", "med", 50, TRUE),
      UpsertArg("u1", "PROFILE", <<"a">>, "gone", "med", 50, TRUE),
      UpsertArg("u1", "PROFILE", <<"a">>, "active", "solid", 50, TRUE) }

InFlightUpserts == Cardinality({v \in Workers : task[v].op = "upsert" /\ task[v].pc # "done"})

\* upsert_master_item, lines 97-132: validation, then the embedding attempt
UpsertCall(w, inputs) ==
    /\ task[w].pc = "idle"
    /\ BagCardinality(upserted) + InFlightUpserts < MaxUpserts
    /\ \E a \in inputs :
          IF ~UpsertValid(a)
          THEN SetTask(w, Finish([Begin(w, "upsert", None) EXCEPT !.args = Some(a)],
                                 "raised"))
          ELSE \E e \in (IF a.embed THEN EmbedResults ELSE {NoVec}) :
                  SetTask(w, [Begin(w, "upsert", None) EXCEPT
                                 !.pc = "select", !.args = Some(a), !.emb = e,
                                 !.called = IF a.embed THEN {"embed_text"} ELSE {}])
    /\ UNCHANGED <<events, summaries, master, evidence, now, upserted, threads, queue, call, reactions, reply>>

UpsertStart(w) == UpsertCall(w, UpsertInputs)

\* upsert_master_item, lines 138-149: the select of the existing row
UpsertSelect(w) ==
    /\ task[w].op = "upsert" /\ task[w].pc = "select"
    /\ \E id \in SelectExisting(task[w].args[1]) :
          SetTask(w, [task[w] EXCEPT !.pc = "uwrite", !.row = id,
                                     !.called = @ \cup {"select"}])
    /\ UNCHANGED <<events, summaries, master, evidence, now, upserted, threads, queue, call, reactions, reply>>

\* upsert_master_item, lines 151-208: update of the selected row, or insert
UpsertWrite(w) ==
    /\ task[w].op = "upsert" /\ task[w].pc = "uwrite"
    /\ LET t == task[w]
       IN  /\ master' = UpsertWritten(t.row, t.args[1], t.emb)
           /\ upserted' = upserted (+) SetToBag({KeyOfArgs(t.args[1])})
           /\ SetTask(w, Finish([t EXCEPT !.row = UpsertReturn(t.row),
                                          !.wrote = IF t.row = 0 THEN "insert"
                                                    ELSE "update",
                                          !.called = @ \cup {"write"}], "id"))
    /\ UNCHANGED <<events, summaries, evidence, now, threads, queue, call, reactions, reply>>

\* ------------------------------------------------------------------------
\* master_memory.py: list_master_items and search_master_items_semantic
\* ------------------------------------------------------------------------
LIST_LIMIT_CAP == 200
SEARCH_K_CAP == 50

\* the rows stored for the retrieval calls: an active fact of u1 with and
\* without embedding, a deprecated fact of u1, an active fact of u2
RetrievalItems ==
    { UpsertArg("u1", "PROFILE", <<"a">>, "active", "med", 50, e) : e \in BOOLEAN }
    \cup { UpsertArg("u1", "GOALS", <<"c">>, "deprecated", "med", 90, TRUE),
           UpsertArg("u2", "PROFILE", <<"b">>, "active", "high", 70, TRUE) }

RetrievalUpsert(w) == UpsertCall(w, RetrievalItems)

\* the retrieval calls tried: no owner, either owner; no bucket, a bucket,
\* an invalid one; no status, two statuses, an invalid one; k below, inside
\* and above the number of rows
RetrievalCalls ==
    [user_id : {"", "u1", "u2"}, bucket : {"", " profile ", "BOGUS"},
     status : {"", " Active", "deprecated", "gone"}, k : {0, 1, 2, 4}]

\* the lower and upper clamp of limit and k
ClampLimit(n, cap) == IF n < 1 THEN 1 ELSE IF n > cap THEN cap ELSE n

\* the ValueErrors raised before the query: owner, _norm_bucket, _norm_status
RetrievalRaises(q) ==
    \/ q.user_id = ""
    \/ q.bucket # "" /\ StripUpper(q.bucket) \notin BUCKETS
    \/ q.status # "" /\ StripLowerOr(q.status, "active") \notin STATUSES

\* a where clause that forgets the owner
WhereAnyOwner(q, embedded) ==
    {i \in 1..Len(master) :
        /\ q.bucket # "" => master[i].bucket = StripUpper(q.bucket)
        /\ q.status # "" => master[i].status = StripLowerOr(q.status, "active")
        /\ embedded => master[i].embedding # NoVec}

\* the where clause: owner, optional bucket and status, and for the semantic
\* search a non-null embedding
Where(q, embedded) ==
    {i \in 1..Len(master) :
        /\ master[i].user_id = q.user_id
        /\ q.bucket # "" => master[i].bucket = StripUpper(q.bucket)
        /\ q.status # "" => master[i].status = StripLowerOr(q.status, "active")
        /\ embedded => master[i].embedding # NoVec}

\* order by confidence desc, reinforcement_count desc, updated_at desc
ListBefore(a, b) ==
    \/ a.confidence > b.confidence
    \/ a.confidence = b.confidence /\ a.reinforcement_count > b.reinforcement_count
    \/ /\ a.confidence = b.confidence
       /\ a.reinforcement_count = b.reinforcement_count
       /\ a.last_seen_at > b.last_seen_at

\* embedding <-> query: the (squared) distance of two vectors
Distance(a, b) == (a[1] - b[1]) * (a[1] - b[1]) + (a[2] - b[2]) * (a[2] - b[2])

\* list_master_items: the first `limit` rows of the ordered selection
list_master_items(q) ==
    {S \in SUBSET Where(q, FALSE) :
        /\ Cardinality(S) = Min2(ClampLimit(q.k, LIST_LIMIT_CAP),
                                 Cardinality(Where(q, FALSE)))
        /\ \A i \in S, j \in Where(q, FALSE) \ S : ~ListBefore(master[j], master[i])}

\* search_master_items_semantic: the k rows nearest to the query vector
search_master_items_semantic(q, q_emb) ==
    {S \in SUBSET Where(q, TRUE) :
        /\ Cardinality(S) = Min2(ClampLimit(q.k, SEARCH_K_CAP),
                                 Cardinality(Where(q, TRUE)))
        /\ \A i \in S, j \in Where(q, TRUE) \ S :
              Distance(master[j].embedding, q_emb)
                  >= Distance(master[i].embedding, q_emb)}

Retrieved(route, q, rows) ==
    [NoReply EXCEPT !.route = route, !.req = Some(q), !.rows = rows]

\* a list_master_items call
ListItems ==
    /\ \E q \in RetrievalCalls :
          IF RetrievalRaises(q)
          THEN reply' = Retrieved("retrieval-raised", q, {})
          ELSE \E S \in list_master_items(q) : reply' = Retrieved("list", q, S)
    /\ UNCHANGED <<events, summaries, master, evidence, now, task, upserted,
                   threads, queue, call, reactions>>

\* a search_master_items_semantic call with a query or none; embed_text
\* raising ends the call
SearchItems ==
    /\ \E q \in RetrievalCalls, query \in {"", "q"}, q_emb \in EmbedResults :
          IF RetrievalRaises(q) \/ query = "" \/ q_emb = NoVec
          THEN reply' = Retrieved("retrieval-raised", q, {})
          ELSE \E S \in search_master_items_semantic(q, q_emb) :
                  reply' = Retrieved("search", q, S)
    /\ UNCHANGED <<events, summaries, master, evidence, now, task, upserted,
                   threads, queue, call, reactions>>

\* ------------------------------------------------------------------------
\* add_master_evidence as a call of its own
\* ------------------------------------------------------------------------
EvidenceArg(mid, thread, event, summary, weight) ==
    [master_item_id |-> mid, thread_id |-> thread, event_id |-> event,
     summary_id |-> summary, weight |-> weight, meta |-> ManualMeta]

\* the calls tried: every combination of pointers given and not given
\* (thread "" and ids 0 stand for None), with weights 1.0, 2.5, 0, -0.5,
\* nan and an unparsable one; and one call without a master item id
EvidenceInputs ==
    { EvidenceArg(1, t, e, sm, w) :
        t \in {"", THREAD}, e \in {0, 1}, sm \in {0, 1},
        w \in {Num(100), Num(250), Num(0), Num(0 - 50), NaN, Unparsable} }
    \cup { EvidenceArg(0, THREAD, 0, 0, Num(100)) }

\* add_master_evidence: the checks, then the insert in one transaction
AddEvidence(w) ==
    /\ task[w].pc = "idle"
    /\ Len(evidence) < MaxEvidence
    /\ \E e \in EvidenceInputs :
          LET t == [Begin(w, "evidence", None) EXCEPT !.args = Some(e)]
          IN  IF ~EvidenceValid(e)
              THEN /\ SetTask(w, Finish(t, "raised"))
                   /\ UNCHANGED evidence
              ELSE /\ evidence' = Append(evidence, NewEvidence(e))
                   /\ SetTask(w, Finish([t EXCEPT !.wrote = "insert",
                                                  !.row = Len(evidence) + 1], "id"))
    /\ UNCHANGED <<events, summaries, master, now, upserted, threads, queue, call, reactions, reply>>

\* ------------------------------------------------------------------------
\* api.py: _delete_thread
\* ------------------------------------------------------------------------
\* the evidence rows the first statement of _delete_thread deletes
EvidenceOfThread(e) ==
    \/ e.thread_id = THREAD
    \/ e.event_id \in 1..Len(events)
    \/ e.summary_id \in 1..Len(summaries)

KeptEvidence(e) == ~EvidenceOfThread(e)

\* who may ask: no authenticated user (API-key mode), the owner, a stranger
DeleteCallers == {"", THREAD_USER, "u2"}

\* _delete_thread(THREAD, auth): both deletes run in one transaction, which
\* is committed only when the delete from ltm_threads removed the row; any
\* other way out returns the connection to the pool, which rolls back.
\* What the store does with the events and summaries of a deleted thread is
\* the schema's matter; they are left as they are and no step of the thread
\* is taken after the deletion.
DeleteThread ==
    \E auth \in DeleteCallers :
        /\ IF THREAD \in threads /\ auth \in {"", THREAD_USER}
           THEN /\ evidence' = SelectSeq(evidence, KeptEvidence)
                /\ threads' = threads \ {THREAD}
           ELSE UNCHANGED <<evidence, threads>>
        /\ UNCHANGED <<events, summaries, master, now, task, upserted, queue, call, reactions, reply>>

\* ------------------------------------------------------------------------
\* messages.py: add_event and the side-effect pool
\* ------------------------------------------------------------------------
\* the phrase lists of _score_importance on the content tokens
\* The scorer reads a text as a sequence of pieces: a blank, a word or a
\* phrase of the scorer's lists, a filler.  "pad" stands for 120 characters
\* that hold no phrase, "x" for one such character.
Pieces ==
    {" ", "ok", "OK", "my name is", "MY NAME IS", "call me", "plan", "i like",
     "x", "pad"}

PieceLen(p) ==
    CASE p = " " -> 1
      [] p = "x" -> 1
      [] p \in {"ok", "OK"} -> 2
      [] p \in {"my name is", "MY NAME IS"} -> 10
      [] p = "call me" -> 7
      [] p = "plan" -> 4
      [] p = "i like" -> 6
      [] p = "pad" -> 120

RECURSIVE TextLen(_)
TextLen(t) == IF t = <<>> THEN 0 ELSE PieceLen(Head(t)) + TextLen(Tail(t))

\* the texts of the event contents
Text(c) ==
    CASE c = "" -> <<>>
      [] c = "ok" -> <<"ok">>
      [] c = "strong" -> <<"my name is", " ", "x">>
      [] c = "plan" -> <<"x", " ", "plan">>
      [] OTHER -> <<"x">>

\* the set `trivial`, the lists `high`, `medium`, `low` as far as the pieces
\* spell them; "call me " ends in a blank
TRIVIAL == {<<"ok">>}

\* p in t, for a phrase that is a piece, and for a phrase that is a piece
\* followed by a blank
Contains(t, p) == \E i \in 1..Len(t) : t[i] = p
ContainsSpaced(t, p) == \E i \in 1..(Len(t) - 1) : t[i] = p /\ t[i + 1] = " "

HasHighPhrase(t) == Contains(t, "my name is") \/ ContainsSpaced(t, "call me")
HasMediumPhrase(t) == Contains(t, "plan")
HasLowPhrase(t) == Contains(t, "i like")

\* a scorer that looks for plans before identity phrases
ScorePlanFirst(actor, content) ==
    LET t == Lower(Strip(content))
    IN  IF actor # "user" THEN 0
        ELSE IF t = <<>> THEN 0
        ELSE IF t \in TRIVIAL THEN 0
        ELSE IF HasMediumPhrase(t) THEN 3
        ELSE IF HasHighPhrase(t) THEN 5
        ELSE IF HasLowPhrase(t) THEN 1
        ELSE IF TextLen(t) >= 120 THEN 1
        ELSE 0

\* a scorer that scores every actor
ScoreAnyActor(actor, content) ==
    LET t == Lower(Strip(content))
    IN  IF t = <<>> THEN 0
        ELSE IF t \in TRIVIAL THEN 0
        ELSE IF HasHighPhrase(t) THEN 5
        ELSE IF HasMediumPhrase(t) THEN 3
        ELSE IF HasLowPhrase(t) THEN 1
        ELSE IF TextLen(t) >= 120 THEN 1
        ELSE 0

_score_importance(actor, content) ==
    LET t == Lower(Strip(content))
    IN  IF actor # "user" THEN 0
        ELSE IF t = <<>> THEN 0
        ELSE IF t \in TRIVIAL THEN 0
        ELSE IF HasHighPhrase(t) THEN 5
        ELSE IF HasMediumPhrase(t) THEN 3
        ELSE IF HasLowPhrase(t) THEN 1
        ELSE IF TextLen(t) >= 120 THEN 1
        ELSE 0

\* a call of the scorer on a text of up to MaxPieces pieces, and its return
ScoreCall ==
    /\ call = NoCall
    /\ \E actor \in {"user", "assistant"}, n \in 0..MaxPieces :
       \E text \in [1..n -> Pieces] :
          call' = [NoCall EXCEPT !.actor = actor, !.content = text,
                                 !.importance_score = _score_importance(actor, text),
                                 !.ret = "scored"]
    /\ UNCHANGED <<events, summaries, master, evidence, now, task, upserted,
                   threads, queue, reactions, reply>>

ScoreReturn ==
    /\ call.ret = "scored"
    /\ call' = NoCall
    /\ UNCHANGED <<events, summaries, master, evidence, now, task, upserted,
                   threads, queue, reactions, reply>>

\* PROJECT_MEMORY_CUES: "my plan" contains the cue "plan"
_project_memory_bucket(content) ==
    IF content = "plan" THEN Some("PROJECTS") ELSE None

\* the calls of add_event tried
EventCalls ==
    { [actor |-> "user", content |-> c, importance_score |-> 0, embed |-> FALSE] :
        c \in {"ok", "strong", "plan"} }
    \cup
    { [actor |-> "user", content |-> "ok", importance_score |-> 5, embed |-> FALSE],
      [actor |-> "assistant", content |-> "long", importance_score |-> 0,
       embed |-> FALSE] }

\* the keyword arguments a submitted task is called with
SideEffect(name, id, a, score) ==
    [name |-> name, event_id |-> id, content |-> a.content,
     importance_score |-> score,
     project_bucket |-> _project_memory_bucket(a.content)]

\* a dispatch that re-evaluates the summary after every event
DispatchedSummaryForEveryEvent(a, id, score) ==
    (IF a.actor = "user"
        /\ (score >= 5 \/ _project_memory_bucket(a.content) # None)
     THEN <<SideEffect("auto_event_capture", id, a, score)>> ELSE <<>>)
    \o (IF a.actor = "user" /\ score >= 5
        THEN <<SideEffect("master_memory_extractor", id, a, score)>> ELSE <<>>)
    \o <<SideEffect("summary_update", id, a, score)>>

\* a dispatch that runs the extraction worker for every user event
DispatchedForEveryUserEvent(a, id, score) ==
    (IF a.actor = "user"
        /\ (score >= 5 \/ _project_memory_bucket(a.content) # None)
     THEN <<SideEffect("auto_event_capture", id, a, score)>> ELSE <<>>)
    \o (IF a.actor = "user"
        THEN <<SideEffect("master_memory_extractor", id, a, score)>> ELSE <<>>)
    \o (IF a.actor = "assistant"
        THEN <<SideEffect("summary_update", id, a, score)>> ELSE <<>>)

\* add_event, lines 332-356: the tasks submitted after the commit, in order
Dispatched(a, id, score) ==
    (IF a.actor = "user"
        /\ (score >= 5 \/ _project_memory_bucket(a.content) # None)
     THEN <<SideEffect("auto_event_capture", id, a, score)>> ELSE <<>>)
    \o (IF a.actor = "user" /\ score >= 5
        THEN <<SideEffect("master_memory_extractor", id, a, score)>> ELSE <<>>)
    \o (IF a.actor = "assistant"
        THEN <<SideEffect("summary_update", id, a, score)>> ELSE <<>>)

\* the calls whose tasks run on the two pool threads: a user event without
\* task, one with the capture and the extraction task, an assistant event
PoolCalls ==
    {a \in EventCalls : a.importance_score = 0 /\ a.content # "plan"}

\* the calls of add_event with a score or an embed flag of the caller's
SuppliedCalls ==
    EventCalls \cup
    { [actor |-> "user", content |-> "ok", importance_score |-> 7, embed |-> FALSE],
      [actor |-> "user", content |-> "ok", importance_score |-> 0, embed |-> TRUE] }

\* an add_event that lets the exception of embed_text through
add_event_unguarded(calls) ==
    /\ Len(events) < MaxEvents
    /\ \E a \in calls :
          LET score == IF a.importance_score = 0
                       THEN _score_importance(a.actor, Text(a.content))
                       ELSE a.importance_score
              embed == a.embed \/ score >= 5
              id == Len(events) + 1
              c == [actor |-> a.actor, content |-> a.content,
                    importance_score |-> score, emb |-> NoVec,
                    ret |-> "raised", id |-> 0, dispatched |-> <<>>,
                    submitted |-> call.submitted, embed |-> embed,
                    raised_in |-> "insert"]
          IN  \E emb \in (IF embed THEN EmbedResults ELSE {NoVec}) :
              \E committed \in BOOLEAN :
                 IF embed /\ emb = NoVec
                 THEN /\ call' = [c EXCEPT !.raised_in = "embed_text"]
                      /\ UNCHANGED <<events, queue>>
                 ELSE IF committed
                 THEN /\ call.submitted + Len(Dispatched(a, id, score)) <= MaxTasks
                      /\ events' = Append(events, [actor |-> a.actor,
                                                   content |-> a.content])
                      /\ queue' = queue \o Dispatched(a, id, score)
                      /\ call' = [c EXCEPT !.emb = emb, !.ret = "id", !.id = id,
                                           !.dispatched = Dispatched(a, id, score),
                                           !.submitted = @ + Len(Dispatched(a, id, score)),
                                           !.raised_in = ""]
                 ELSE /\ call' = c
                      /\ UNCHANGED <<events, queue>>
    /\ UNCHANGED <<summaries, master, evidence, now, task, upserted, threads, reactions, reply>>

\* add_event: scoring, the guarded embedding attempt, the insert and its
\* commit, then the submissions and the return of the id.  The insert or the
\* commit may raise; nothing after them is reached then.
add_event_on(calls) ==
    /\ Len(events) < MaxEvents
    /\ \E a \in calls :
          LET score == IF a.importance_score = 0
                       THEN _score_importance(a.actor, Text(a.content))
                       ELSE a.importance_score
              embed == a.embed \/ score >= 5
              id == Len(events) + 1
              c == [actor |-> a.actor, content |-> a.content,
                    importance_score |-> score, emb |-> NoVec,
                    ret |-> "raised", id |-> 0, dispatched |-> <<>>,
                    submitted |-> call.submitted, embed |-> embed,
                    raised_in |-> "insert"]
          IN  \E emb \in (IF embed THEN EmbedResults ELSE {NoVec}) :
              \E committed \in BOOLEAN :
                 IF committed
                 THEN /\ call.submitted + Len(Dispatched(a, id, score)) <= MaxTasks
                      /\ events' = Append(events, [actor |-> a.actor,
                                                   content |-> a.content])
                      /\ queue' = queue \o Dispatched(a, id, score)
                      /\ call' = [c EXCEPT !.emb = emb, !.ret = "id", !.id = id,
                                           !.dispatched = Dispatched(a, id, score),
                                           !.submitted = @ + Len(Dispatched(a, id, score)),
                                           !.raised_in = ""]
                 ELSE /\ call' = c
                      /\ UNCHANGED <<events, queue>>
    /\ UNCHANGED <<summaries, master, evidence, now, task, upserted, threads, reactions, reply>>

add_event == add_event_on(EventCalls)

\* a pool thread takes the oldest submitted task
TakeTask(w) ==
    /\ task[w] = Idle
    /\ queue # <<>>
    /\ queue' = Tail(queue)
    /\ SetTask(w, [Idle EXCEPT !.op = Head(queue).name, !.args = Some(Head(queue))])
    /\ UNCHANGED <<events, summaries, master, evidence, now, upserted, threads, call, reactions, reply>>

\* the task "summary_update" is maybe_update_summary
SummaryUpdate(w) == task[w].op = "summary_update" /\ MaybeStart(w)

\* _capture_master_memory_from_event, lines 231-251
CaptureArgs(q) ==
    [user_id |-> THREAD_USER,
     bucket |-> IF q.project_bucket # None THEN q.project_bucket[1]
                ELSE IF HasHighPhrase(Lower(Strip(Text(q.content)))) THEN "PROFILE"
                ELSE "LONG_RUNNING_CONTEXT",
     text |-> <<q.content>>, status |-> "active", stability |-> "med",
     confidence |-> 70, embed |-> FALSE,
     meta |-> [source |-> "auto_event_capture",
               importance_score |-> Max2(q.importance_score, 5),
               capture_reason |-> IF q.project_bucket # None THEN "project_phrase"
                                  ELSE "importance_high"]]

CaptureEvidence(mid, q) ==
    [master_item_id |-> mid, thread_id |-> THREAD, event_id |-> q.event_id,
     summary_id |-> 0, weight |-> Num(100),
     meta |-> [source |-> "auto_event_capture"]]

\* the task "auto_event_capture": the owner lookup and upsert_master_item
CaptureUpsert(w) ==
    /\ task[w].op = "auto_event_capture" /\ task[w].pc = "idle"
    /\ LET q == task[w].args[1]
       IN  IF THREAD \notin threads
           THEN /\ SetTask(w, Finish(task[w], "none"))
                /\ UNCHANGED <<master, upserted>>
           ELSE \E id \in SelectExisting(CaptureArgs(q)) :
                   /\ master' = UpsertWritten(id, CaptureArgs(q), NoVec)
                   /\ upserted' = upserted (+) SetToBag({KeyOfArgs(CaptureArgs(q))})
                   /\ SetTask(w, [task[w] EXCEPT !.pc = "evidence",
                                                 !.row = UpsertReturn(id)])
    /\ UNCHANGED <<events, summaries, evidence, now, threads, queue, call, reactions, reply>>

\* the task "auto_event_capture": add_master_evidence
CaptureLink(w) ==
    /\ task[w].op = "auto_event_capture" /\ task[w].pc = "evidence"
    /\ evidence' = Append(evidence,
                          NewEvidence(CaptureEvidence(task[w].row, task[w].args[1])))
    /\ SetTask(w, Finish(task[w], "none"))
    /\ UNCHANGED <<events, summaries, master, now, upserted, threads, queue, call, reactions, reply>>

\* ------------------------------------------------------------------------
\* master_memory_extractor.py: the task "master_memory_extractor"
\* ------------------------------------------------------------------------
CONFIDENCE_FLOOR == 80
EMBED_CONFIDENCE == 90
BANNED_SUBSTRINGS == {"improve productivity", "explore new hobby",
                      "tackle put-off tasks", "review previous conversation"}

\* a candidate claim of the model's answer, its confidence a number in
\* hundredths; event_index 0: no event named
Candidate(text, bucket, conf, idx) ==
    [text |-> text, bucket |-> bucket, confidence |-> conf, event_index |-> idx,
     kind |-> "num"]

\* a candidate whose confidence is the float nan, and one whose confidence
\* float() cannot convert (a word, null)
NanConfidence(c) == [c EXCEPT !.kind = "nan"]
BadConfidence(c) == [c EXCEPT !.kind = "bad"]

\* what _run_llm can return
LlmOutputs ==
    { <<>>,
      <<Candidate(<<"f">>, "BOGUS", 85, 0), Candidate(<<"f">>, "", 95, 1)>> }

\* the answers tried in an extraction run on its own: one or two candidates,
\* each good (embedded or not), below the floor, empty, denylisted, with a
\* bucket that does not exist, or with a confidence that is no number
CandidatePool ==
    { Candidate(<<"f">>, "PROFILE", 95, 1),
      Candidate(<<"g">>, "", 85, 0),
      Candidate(<<"h">>, "PROFILE", 50, 0),
      Candidate(<<" ">>, "PROFILE", 95, 0),
      Candidate(<<"x", "improve productivity">>, "PROFILE", 95, 0),
      Candidate(<<"b">>, "BOGUS", 85, 0),
      NanConfidence(Candidate(<<"n">>, "PROFILE", 0, 0)),
      BadConfidence(Candidate(<<"m">>, "PROFILE", 0, 0)) }

CandidateLists ==
    {<<c>> : c \in CandidatePool} \cup {<<c, d>> : c, d \in CandidatePool}

HasBanned(text) == \E i \in 1..Len(text) : Lower(text)[i] \in BANNED_SUBSTRINGS

\* max(0.0, min(1.0, confidence)), lines 188-189: min(1.0, nan) is 1.0
ClampedConfidence(c) == IF c.kind = "nan" THEN 100 ELSE Clamp01(c.confidence)

\* the filters of lines 182-191
PassesFilters(c) ==
    /\ Strip(c.text) # <<>>
    /\ ~HasBanned(Strip(c.text))
    /\ ClampedConfidence(c) >= CONFIDENCE_FLOOR

\* float(claim.get("confidence", 0.0)) raises, line 188, reached after the
\* text filters only
ConfidenceRaises(c) ==
    /\ Strip(c.text) # <<>>
    /\ ~HasBanned(Strip(c.text))
    /\ c.kind = "bad"

\* _normalize_event_id: the id of the event the index names among the
\* fetched events, None (0) otherwise
_normalize_event_id(c) ==
    IF c.event_index \in 1..Len(events) THEN c.event_index ELSE 0

ClaimArgs(c) ==
    [user_id |-> THREAD_USER,
     bucket |-> IF c.bucket = "" THEN "PROJECTS" ELSE c.bucket,
     text |-> Strip(c.text), status |-> "active", stability |-> "med",
     confidence |-> ClampedConfidence(c),
     embed |-> ClampedConfidence(c) >= EMBED_CONFIDENCE,
     meta |-> [source |-> "llm_extractor", thread_id |-> THREAD,
               event_id |-> _normalize_event_id(c)]]

ClaimEvidence(mid, c) ==
    [master_item_id |-> mid, thread_id |-> THREAD,
     event_id |-> _normalize_event_id(c), summary_id |-> 0, weight |-> Num(100),
     meta |-> [source |-> "llm_extractor"]]

\* extract_and_write_master_memory, lines 164-172: the owner lookup, the
\* recent events, the call of the model (which may raise)
ExtractorRun(w, outputs) ==
    /\ task[w].op = "master_memory_extractor" /\ task[w].pc = "idle"
    /\ IF THREAD \notin threads \/ events = <<>>
       THEN SetTask(w, Finish(task[w], "none"))
       ELSE \/ SetTask(w, Finish(task[w], "raised"))
            \/ \E claims \in outputs :
                  SetTask(w, [task[w] EXCEPT !.pc = "claims", !.turns = claims])
    /\ UNCHANGED <<events, summaries, master, evidence, now, upserted, threads,
                   queue, call, reactions, reply>>

ExtractorStart(w) == ExtractorRun(w, LlmOutputs)

\* lines 181-218: one round of the loop over the candidates; an exception of
\* the two writes is logged and the loop goes on, an exception of the
\* confidence conversion ends the task
ExtractorClaim(w) ==
    /\ task[w].op = "master_memory_extractor" /\ task[w].pc = "claims"
    /\ IF task[w].turns = <<>>
       THEN /\ SetTask(w, Finish(task[w], "none"))
            /\ UNCHANGED <<master, evidence, upserted>>
       ELSE LET c == Head(task[w].turns)
                a == ClaimArgs(c)
                t == [task[w] EXCEPT !.turns = Tail(@)]
            IN  IF ConfidenceRaises(c)
                THEN /\ SetTask(w, Finish(task[w], "raised"))
                     /\ UNCHANGED <<master, evidence, upserted>>
                ELSE IF ~PassesFilters(c) \/ ~UpsertValid(a)
                THEN /\ SetTask(w, t)
                     /\ UNCHANGED <<master, evidence, upserted>>
                ELSE \E emb \in (IF a.embed THEN EmbedResults ELSE {NoVec}) :
                     \E id \in SelectExisting(a) :
                        /\ master' = UpsertWritten(id, a, emb)
                        /\ upserted' = upserted (+) SetToBag({KeyOfArgs(a)})
                        /\ evidence' = Append(evidence,
                               NewEvidence(ClaimEvidence(UpsertReturn(id), c)))
                        /\ SetTask(w, t)
    /\ UNCHANGED <<events, summaries, now, threads, queue, call, reactions, reply>>

\* ------------------------------------------------------------------------
\* api.py: reactions, the reply context, the chat route; llm.py: chat_reply
\* ------------------------------------------------------------------------
SEMANTIC_LIMIT == 5
REACTION_LIMIT == 8

ChatTexts == {"ok", "recap", "recall", "both"}

\* one regex for both cue sets
AnyCue(text) == text \in {"recap", "recall", "both"}

\* SUMMARY_CUE_REGEX and SEMANTIC_CUE_REGEX on the chat texts
SummaryCue(text) == text \in {"recap", "both"}
SemanticCue(text) == text \in {"recall", "both"}

_normalize_limit(raw, default, cap) ==
    IF raw = None THEN default
    ELSE IF raw[1] < 1 THEN 1
    ELSE IF raw[1] > cap THEN cap
    ELSE raw[1]

\* the short_term_limit values tried: absent, one, above the cap
Limits == {None, Some(1), Some(9)}

\* api.py _get_active_summary: the newest active row's text, if any
ActiveSummaryText ==
    IF ActiveIds = {} THEN None
    ELSE Some(summaries[CHOOSE i \in ActiveIds : \A j \in ActiveIds : j <= i].summary)

\* _get_semantic_memories: the active items of the thread's owner; the query
\* returns at most `limit` of them (the newest by updated_at, any of them here)
SemanticRows ==
    {i \in 1..Len(master) : master[i].user_id = THREAD_USER
                            /\ master[i].status = "active"}

SemanticChoices(limit) ==
    {S \in SUBSET SemanticRows : Cardinality(S) = Min2(limit, Cardinality(SemanticRows))}

ReactionLabel(r) ==
    CASE r = "thumbs_up" -> "liked"
      [] r = "heart" -> "loved"
      [] r = "angry" -> "disliked"
      [] r = "sad" -> "found unhelpful"
      [] r = "brain" -> "requested a summary after"
      [] OTHER -> r

\* _get_recent_reaction_feedback: the user's reactions on assistant events
ReactionRows(user) ==
    {r \in reactions : r.user_id = user /\ r.event_id \in 1..Len(events)
                       /\ events[r.event_id].actor = "assistant"}

ReactionChoices(user, limit) ==
    {S \in SUBSET ReactionRows(user) :
        Cardinality(S) = Min2(limit, Cardinality(ReactionRows(user)))}

ReactionFeedback(rows) ==
    {<<ReactionLabel(r.reaction), events[r.event_id].content>> : r \in rows}

\* a query that forgets rows.reverse()
QueryNewestFirst(limit) ==
    [k \in 1..Min2(limit, Len(events)) |-> Len(events) + 1 - k]

\* _query_events: the ids of the newest `limit` events, oldest first
_query_events(limit) ==
    [k \in 1..Min2(limit, Len(events)) |->
        Len(events) - Min2(limit, Len(events)) + k]

SystemMessage(label, body) == [role |-> "system", content |-> <<label, body>>]
EventMessage(id) == [role |-> events[id].actor, content |-> <<events[id].content>>]

\* _build_memory_context, given the rows its two limited queries returned
_build_memory_context(text, short_term_limit, reaction_user_id, sem, rea) ==
    (IF SummaryCue(text) /\ ActiveSummaryText # None
     THEN <<SystemMessage("Active summary:", ActiveSummaryText[1])>> ELSE <<>>)
    \o (IF SemanticCue(text) /\ sem # {}
        THEN <<SystemMessage("Relevant long-term memory:",
                             {master[i].text : i \in sem})>> ELSE <<>>)
    \o (IF reaction_user_id # "" /\ rea # {}
        THEN <<SystemMessage("User reaction signals:", ReactionFeedback(rea))>>
        ELSE <<>>)
    \o [k \in 1..Len(_query_events(_normalize_limit(short_term_limit,
                                                    DEFAULT_SHORT_TERM_LIMIT,
                                                    SHORT_TERM_CAP))) |->
          EventMessage(_query_events(_normalize_limit(short_term_limit,
                                                      DEFAULT_SHORT_TERM_LIMIT,
                                                      SHORT_TERM_CAP))[k])]

\* the contexts _build_memory_context can return in this state
Contexts(text, short_term_limit, reaction_user_id) ==
    {_build_memory_context(text, short_term_limit, reaction_user_id, sem, rea) :
        sem \in SemanticChoices(SEMANTIC_LIMIT),
        rea \in ReactionChoices(reaction_user_id, REACTION_LIMIT)}

\* _resolve_reaction_user_id: the caller, else the owner of the thread
_resolve_reaction_user_id(auth_user_id) ==
    IF auth_user_id # "" THEN auth_user_id
    ELSE IF THREAD \in threads THEN THREAD_USER ELSE ""

\* a context route that consumes the reaction signals it reports
ContextRouteConsuming ==
    /\ THREAD \in threads
    /\ \E text \in ChatTexts, limit \in Limits, auth \in {"", THREAD_USER} :
       \E ctx \in Contexts(text, limit, _resolve_reaction_user_id(auth)) :
          /\ reply' = [route |-> "memory-context", text |-> text,
                       limit |-> limit, context |-> ctx,
                       msgs |-> <<>>, req |-> None, rows |-> {}]
          /\ reactions' = reactions \ ReactionRows(_resolve_reaction_user_id(auth))
    /\ UNCHANGED <<events, summaries, master, evidence, now, task, upserted,
                   threads, queue, call>>

\* build_memory_context_route, for the owner or in API-key mode
ContextRoute ==
    /\ THREAD \in threads
    /\ \E text \in ChatTexts, limit \in Limits, auth \in {"", THREAD_USER} :
       \E ctx \in Contexts(text, limit, _resolve_reaction_user_id(auth)) :
          reply' = [route |-> "memory-context", text |-> text,
                    limit |-> limit, context |-> ctx,
                    msgs |-> <<>>, req |-> None, rows |-> {}]
    /\ UNCHANGED <<events, summaries, master, evidence, now, task, upserted,
                   threads, queue, call, reactions>>

\* chat_route, lines 851-857: the context without the echo of the new text
DropEcho(ctx, text) ==
    IF ctx # <<>> /\ ctx[Len(ctx)].role = "user" /\ ctx[Len(ctx)].content = <<text>>
    THEN SubSeq(ctx, 1, Len(ctx) - 1)
    ELSE ctx

\* context_messages[-n:]
LastN(s, n) == SubSeq(s, Max2(1, Len(s) - n + 1), Len(s))

\* chat_reply, lines 77-118: the messages handed to the completion service
chat_reply(text, context_messages, soul) ==
    <<SystemMessage("policy", "")>>
    \o (IF soul THEN <<SystemMessage("soul contract", "")>> ELSE <<>>)
    \o LastN(context_messages, _MAX_CONTEXT_MESSAGES)
    \o <<[role |-> "user", content |-> <<text>>]>>

\* the committed insert of an add_event call and its submissions
Committed(a, emb) ==
    LET score == IF a.importance_score = 0
                 THEN _score_importance(a.actor, Text(a.content))
                 ELSE a.importance_score
        id == Len(events) + 1
    IN  /\ events' = Append(events, [actor |-> a.actor, content |-> a.content])
        /\ queue' = queue \o Dispatched(a, id, score)
        /\ call' = [actor |-> a.actor, content |-> a.content,
                    importance_score |-> score, emb |-> emb, ret |-> "id",
                    id |-> id, dispatched |-> Dispatched(a, id, score),
                    submitted |-> call.submitted + Len(Dispatched(a, id, score)),
                    embed |-> score >= 5, raised_in |-> ""]

ChatEvent(actor, content) ==
    [actor |-> actor, content |-> content, importance_score |-> 0, embed |-> FALSE]

\* chat_route up to the call of the completion service: the user event, the
\* context, chat_reply's message list; in API-key mode, with a text without
\* cue or with both cues
ChatAsk ==
    /\ THREAD \in threads
    /\ Len(events) + 1 < MaxEvents
    /\ UNCHANGED <<summaries, master, evidence, now, task, upserted, threads,
                   reactions>>
    /\ \E text \in {"ok", "both"}, limit \in Limits, auth \in {""},
          soul \in BOOLEAN :
          /\ Committed(ChatEvent("user", text), NoVec)
          /\ \E ctx \in Contexts(text, limit, _resolve_reaction_user_id(auth))' :
                reply' = [route |-> "chat-asked", text |-> text,
                          limit |-> limit, context |-> ctx,
                          msgs |-> chat_reply(text, DropEcho(ctx, text), soul),
                          req |-> None, rows |-> {}]

\* chat_route, lines 858-875: the completion service has answered (the
\* assistant event is stored) or failed (the request ends with an error)
ChatStore ==
    /\ reply.route = "chat-asked"
    /\ \/ /\ Committed(ChatEvent("assistant", "long"), NoVec)
          /\ reply' = [reply EXCEPT !.route = "chat"]
       \/ /\ reply' = [reply EXCEPT !.route = "chat-failed", !.msgs = <<>>]
          /\ UNCHANGED <<events, queue, call>>
    /\ UNCHANGED <<summaries, master, evidence, now, task, upserted, threads,
                   reactions>>

\* the response of the route is sent
Respond ==
    /\ reply.route \in {"memory-context", "chat", "chat-failed", "list", "search",
                      "retrieval-raised", "reaction", "reaction-not-found",
                      "reaction-rejected", "reaction-raised"}
    /\ reply' = NoReply
    /\ UNCHANGED <<events, summaries, master, evidence, now, task, upserted,
                   threads, queue, call, reactions>>

\* the reactions tried on an event id
ReactionInputs == {None, Some("brain")}

\* the reactions of the requests that replace one value by another
ReactionValues == {None, Some("heart"), Some("brain")}

\* an insert without "on conflict (event_id, user_id) do update"
InsertReaction(rows, e, user, r) ==
    rows \cup {[event_id |-> e, user_id |-> user, reaction |-> r]}

\* the statement of lines 380-391: the row of (event, user) is inserted, or
\* its reaction is replaced
UpsertReaction(rows, e, user, r) ==
    {x \in rows : ~(x.event_id = e /\ x.user_id = user)}
        \cup {[event_id |-> e, user_id |-> user, reaction |-> r]}

\* _set_event_reaction: the event must exist (else 404) and be an assistant
\* event (else 400); the row of (event, user) is deleted, or inserted /
\* replaced; the reaction "brain" then calls force_update_summary
SetReactionOn(w, inputs) ==
    /\ task[w].pc = "idle"
    /\ THREAD \in threads
    /\ \E e \in 1..MaxEvents, r \in inputs :
          LET others == {x \in reactions : ~(x.event_id = e /\ x.user_id = THREAD_USER)}
              t == [Begin(w, "react", None) EXCEPT !.n = e, !.args = r]
          IN  IF e \notin 1..Len(events)
              THEN /\ SetTask(w, Finish(t, "not_found"))
                   /\ UNCHANGED reactions
              ELSE IF events[e].actor # "assistant"
              THEN /\ SetTask(w, Finish(t, "not_assistant"))
                   /\ UNCHANGED reactions
              ELSE IF r = None
              THEN /\ reactions' = others
                   /\ SetTask(w, Finish(t, "none"))
              ELSE /\ reactions' = UpsertReaction(reactions, e, THREAD_USER, r[1])
                   /\ SetTask(w, IF r[1] = "brain"
                                 THEN [Idle EXCEPT !.op = "brain", !.n = e, !.args = r]
                                 ELSE Finish(t, "none"))
    /\ UNCHANGED <<events, summaries, master, evidence, now, upserted, threads,
                   queue, call, reply>>

SetReaction(w) == SetReactionOn(w, ReactionInputs)

\* set_event_reaction_route: the response of the request, or the exception
\* that leaves it
ReactionReturn(w) ==
    /\ task[w].pc = "done"
    /\ task[w].op \in {"react", "force"}
    /\ reply' = [NoReply EXCEPT !.route =
                    CASE task[w].ret = "not_found" -> "reaction-not-found"
                      [] task[w].ret = "not_assistant" -> "reaction-rejected"
                      [] task[w].ret = "raised" -> "reaction-raised"
                      [] OTHER -> "reaction"]
    /\ SetTask(w, Idle)
    /\ UNCHANGED <<events, summaries, master, evidence, now, upserted, threads,
                   queue, call, reactions>>

\* the force_update_summary call of the reaction "brain"
BrainForce(w) == task[w].op = "brain" /\ ForceStart(w)

\* ------------------------------------------------------------------------
\* Specifications
\* ------------------------------------------------------------------------
Main == "w1"

\* no call is in progress
Calm == \A w \in Workers : task[w].pc = "idle"

\* Spec: one operation at a time (an event insert, a clock step, or a whole
\* summarizer call on one worker).  No code path reads the clock before the
\* thread has a summary row, so the clock is started at the first write.
Next ==
    \/ Calm /\ AddUserEvent
    \/ Calm /\ AddAssistantEvent
    \/ Calm /\ summaries # <<>> /\ Tick
    \/ MaybeStart(Main)
    \/ MaybeWrite(Main)
    \/ MaybeEpisode(Main)
    \/ ForceStart(Main)
    \/ ForceWrite(Main)
    \/ Sync(Main)
    \/ Return(Main)

Spec == Init /\ [][Next]_vars

\* SpecConc: summarizer calls overlapping on the worker pool while the clock
\* stands still (all of them inside one debounce window).  With the clock at
\* 0 no call gets past the debounce of a row another call wrote, so no topic
\* shift is decided and the episode step has nothing to do.
NextConc ==
    \/ Calm /\ AddEvent("user", "strong")
    \/ \E w \in Workers :
          \/ Len(summaries) < MaxSummaries /\ MaybeStart(w)
          \/ MaybeWrite(w)
          \/ Len(summaries) < MaxSummaries /\ ForceStart(w)
          \/ ForceWrite(w)
          \/ Sync(w)
          \/ Return(w)

SpecConc == Init /\ [][NextConc]_vars

\* SpecMaster: upsert_master_item, one call at a time
NextMaster ==
    \/ Tick
    \/ UpsertStart(Main)
    \/ UpsertSelect(Main)
    \/ UpsertWrite(Main)
    \/ Return(Main)

SpecMaster == Init /\ [][NextMaster]_vars

\* SpecMasterConc: upsert_master_item on the worker pool, calls overlapping
NextMasterConc ==
    \E w \in Workers :
        \/ UpsertStart(w)
        \/ UpsertSelect(w)
        \/ UpsertWrite(w)
        \/ Return(w)

SpecMasterConc == Init /\ [][NextMasterConc]_vars

\* SpecEvidence: add_master_evidence, one call at a time
NextEvidence ==
    \/ AddEvidence(Main)
    \/ Return(Main)

SpecEvidence == Init /\ [][NextEvidence]_vars

\* SpecDelete: Spec, with the thread deleted at any quiet moment
NextDelete ==
    \/ THREAD \in threads /\ Next
    \/ Calm /\ DeleteThread

SpecDelete == Init /\ [][NextDelete]_vars

\* SpecEvents: add_event calls and the pool of two threads running the tasks
\* they submit, while the clock stands still
NextEvents ==
    \/ add_event_on(PoolCalls)
    \/ \E w \in Workers :
          \/ TakeTask(w)
          \/ SummaryUpdate(w)
          \/ MaybeWrite(w)
          \/ Sync(w)
          \/ CaptureUpsert(w)
          \/ CaptureLink(w)
          \/ ExtractorStart(w)
          \/ ExtractorClaim(w)
          \/ Return(w)

SpecEvents == Init /\ [][NextEvents]_vars

\* SpecSync: force_update_summary calls overlapping (the reaction route and
\* the pool), with the master sync taken statement by statement
NextSync ==
    \/ Calm /\ AddEvent("user", "strong")
    \/ \E w \in Workers :
          \/ ForceStart(w)
          \/ ForceWrite(w)
          \/ SyncSelect(w)
          \/ SyncWrite(w)
          \/ Return(w)

SpecSync == Init /\ [][NextSync]_vars

\* SpecAddEvent: add_event called with and without a score and an embed flag
\* of the caller's, its tasks run by one pool thread
NextAddEvent ==
    \/ add_event_on(SuppliedCalls)
    \/ TakeTask(Main)
    \/ SummaryUpdate(Main)
    \/ MaybeWrite(Main)
    \/ Sync(Main)
    \/ CaptureUpsert(Main)
    \/ CaptureLink(Main)
    \/ ExtractorStart(Main)
    \/ ExtractorClaim(Main)
    \/ Return(Main)

SpecAddEvent == Init /\ [][NextAddEvent]_vars

\* SpecScore: the importance scorer called on every text of the pieces
NextScore ==
    \/ ScoreCall
    \/ ScoreReturn

SpecScore == Init /\ [][NextScore]_vars

\* SpecExtract: events and their side-effect tasks on one pool thread, the
\* extraction worker answered with the candidate lists
NextExtract ==
    \/ add_event
    \/ TakeTask(Main)
    \/ SummaryUpdate(Main)
    \/ MaybeWrite(Main)
    \/ Sync(Main)
    \/ CaptureUpsert(Main)
    \/ CaptureLink(Main)
    \/ ExtractorRun(Main, CandidateLists)
    \/ ExtractorClaim(Main)
    \/ Return(Main)

SpecExtract == Init /\ [][NextExtract]_vars

\* SpecRetrieve: master items of two owners are stored, and between the
\* writes the three read paths are called: list, semantic search, context
NextRetrieve ==
    \/ reply = NoReply /\ RetrievalUpsert(Main)
    \/ UpsertSelect(Main)
    \/ UpsertWrite(Main)
    \/ Return(Main)
    \/ Calm /\ reply = NoReply /\ ListItems
    \/ Calm /\ reply = NoReply /\ SearchItems
    \/ Calm /\ reply = NoReply /\ ContextRoute
    \/ Respond

SpecRetrieve == Init /\ [][NextRetrieve]_vars

\* SpecContext: chat requests, reactions (the forced summary of "brain"
\* included) and context requests, one request at a time
NextContext ==
    \/ Calm /\ reply = NoReply /\ ChatAsk
    \/ ChatStore
    \/ Calm /\ reply = NoReply /\ ContextRoute
    \/ Respond
    \/ reply = NoReply /\ SetReaction(Main)
    \/ BrainForce(Main)
    \/ ForceWrite(Main)
    \/ Sync(Main)
    \/ Return(Main)

SpecContext == Init /\ [][NextContext]_vars

\* SpecReact: events are stored and reactions are set, replaced and removed
\* on them, one request at a time, the forced summary of "brain" included
NextReact ==
    \/ Calm /\ reply = NoReply /\ AddEvent("user", "strong")
    \/ Calm /\ reply = NoReply /\ AddAssistantEvent
    \/ reply = NoReply /\ SetReactionOn(Main, ReactionValues)
    \/ BrainForce(Main)
    \/ ForceWrite(Main)
    \/ Sync(Main)
    \/ ReactionReturn(Main)
    \/ Respond

SpecReact == Init /\ [][NextReact]_vars

\* no call is in progress and no task is waiting on a pool thread
Quiet == \A w \in Workers : task[w] = Idle

\* a conversation told turn by turn: the user's event
TurnUserEvent ==
    /\ Quiet
    /\ Len(events) % 2 = 0
    /\ AppendEvent("user", "strong", 2 * MaxTurns)

\* the assistant's reply: add_event commits it and submits the task
\* "summary_update" (messages.py 353-354), which a pool thread takes
TurnAssistantEvent ==
    /\ Quiet
    /\ Len(events) % 2 = 1
    /\ events' = Append(events, [actor |-> "assistant", content |-> "long"])
    /\ SetTask(Main, [Idle EXCEPT !.op = "summary_update"])
    /\ UNCHANGED <<summaries, master, evidence, now, upserted, threads, queue,
                   call, reactions, reply>>

\* maybe_update_summary with the program's target and lookback
TurnSummaryUpdate(w) ==
    /\ task[w].op = "summary_update"
    /\ MaybeRun(w, MEANINGFUL_TARGET_FULL, FETCH_LOOKBACK_FULL)

\* SpecTurns: meaningful turns arrive one by one, the summarizer runs to its
\* end after every assistant event, the clock moves between the turns
NextTurns ==
    \/ TurnUserEvent
    \/ TurnAssistantEvent
    \/ Quiet /\ summaries # <<>> /\ Tick
    \/ TurnSummaryUpdate(Main)
    \/ MaybeWrite(Main)
    \/ MaybeEpisode(Main)
    \/ Sync(Main)
    \/ Return(Main)

SpecTurns == Init /\ [][NextTurns]_vars

\* SpecWide: Spec with the program's lookback, which is wider than any
\* event list that reaches the target, so that the target alone ends the
\* collection of the turns
NextWide ==
    \/ Calm /\ AddUserEvent
    \/ Calm /\ AddAssistantEvent
    \/ Calm /\ summaries # <<>> /\ Tick
    \/ MaybeRun(Main, MEANINGFUL_TARGET, FETCH_LOOKBACK_FULL)
    \/ MaybeWrite(Main)
    \/ MaybeEpisode(Main)
    \/ Len(evidence) < MaxEvidence /\ ForceRun(Main, FETCH_LOOKBACK_FULL)
    \/ ForceWrite(Main)
    \/ Sync(Main)
    \/ Return(Main)

SpecWide == Init /\ [][NextWide]_vars

\* a user event lies after the range end of an active row (after the start
\* of the thread when no row is active)
UserEventPending ==
    \E a \in ActiveOpt :
        \E i \in (SinceOf(a) + 1)..Len(events) : events[i].actor = "user"

\* SpecEpisodes: user events, the clock, and the two summarizers one call at
\* a time; force_update_summary is called when a user event is pending, so
\* that forced updates follow the archive of a topic shift
NextEpisodes ==
    \/ Calm /\ AddEvent("user", "strong")
    \/ Calm /\ summaries # <<>> /\ Tick
    \/ MaybeStart(Main)
    \/ MaybeWrite(Main)
    \/ MaybeEpisode(Main)
    \/ UserEventPending /\ ForceRun(Main, FETCH_LOOKBACK)
    \/ ForceWrite(Main)
    \/ Sync(Main)
    \/ Return(Main)

SpecEpisodes == Init /\ [][NextEpisodes]_vars

\* ------------------------------------------------------------------------
\* Claims
\* ------------------------------------------------------------------------

\* C1: between non-overlapping calls of maybe_update_summary and
\* force_update_summary the conversation has at most one active summary
\* row, and it has none only while it has no summary row at all.
C1_OneActiveBetweenCalls ==
    Calm => /\ Cardinality(ActiveIds) <= 1
            /\ (ActiveIds = {} => summaries = <<>>)

\* C2: with summarizer calls overlapping, the conversation never has more
\* than one active summary row.
C2_OneActiveWhenOverlapping == Cardinality(ActiveIds) <= 1

\* C3: once the conversation has a summary row, every state a reader can
\* observe has exactly one active row, also between the archive and the
\* replacement insert and when that insert fails.
C3_ExactlyOneActiveOnceCreated ==
    summaries # <<>> => Cardinality(ActiveIds) = 1

RowsWithKey(k) == {i \in 1..Len(master) : KeyOfRow(master[i]) = k}
KeysInUse == BagToSet(upserted) \cup {KeyOfRow(master[i]) : i \in 1..Len(master)}

\* one row per dedup key, its reinforcement_count the number of upserts made
OneRowPerKeyCounted ==
    \A k \in KeysInUse :
        /\ Cardinality(RowsWithKey(k)) = 1
        /\ \A i \in RowsWithKey(k) :
              master[i].reinforcement_count = CopiesIn(k, upserted)

\* C4: after any sequence of successful non-overlapping upsert_master_item
\* calls, every key (owner, bucket, lowercase-trimmed text) has exactly one
\* row, whose reinforcement_count is the number of upserts made with the key.
C4_OneRowPerKeySequential == OneRowPerKeyCounted

\* a repeat upsert whose text differs from the stored one in case or blanks
C4_Witness ==
    /\ task[Main].op = "upsert" /\ task[Main].pc = "done"
    /\ task[Main].wrote = "update"
    /\ task[Main].args[1].text # master[task[Main].row].text
    /\ master[task[Main].row].reinforcement_count >= 2

\* C5: when upsert_master_item calls for one key overlap, every interleaving
\* ends with exactly one row for the key whose reinforcement_count counts
\* all of the calls.
C5_OneRowPerKeyConcurrent == Calm => OneRowPerKeyCounted

\* the reply a user event is paired with: the next assistant event, if any
ReplyTo(i) ==
    LET js == {j \in (i + 1)..Len(events) : events[j].actor = "assistant"}
    IN  IF js = {} THEN "" ELSE events[MinOf(js)].content

\* the meaningful turns among the events after the range end of `active`
\* (all events when there is none), counted over the whole event list
PendingMeaningful(active) ==
    Cardinality({i \in (SinceOf(active) + 1)..Len(events) :
                    /\ events[i].actor = "user"
                    /\ is_meaningful_turn(events[i].content, ReplyTo(i))})

\* w starts a maybe_update_summary call in this step
StartsMaybe(w) == task[w].pc = "idle" /\ task'[w].op = "maybe"

ReturnsFalseUnwritten(w) ==
    /\ task'[w].pc = "done" /\ task'[w].ret = "false" /\ task'[w].wrote = "none"
    /\ UNCHANGED <<summaries, master, evidence>>

C6_Step ==
    \A w \in Workers :
        (StartsMaybe(w) /\ PendingMeaningful(task'[w].active) < MEANINGFUL_TARGET)
            => ReturnsFalseUnwritten(w)

\* C6: a maybe_update_summary call that finds fewer than MEANINGFUL_TARGET
\* meaningful turns after the active summary's range end (or among all
\* events when there is no summary) returns False and leaves summaries,
\* master items and evidence as they were.
C6_BelowTargetNoChange == [][C6_Step]_vars

\* a call that was not debounced and returned False one meaningful turn short
C6_Witness ==
    /\ task[Main].op = "maybe" /\ task[Main].pc = "done"
    /\ task[Main].ret = "false"
    /\ ~_should_debounce_summary(task[Main].active)
    /\ PendingMeaningful(task[Main].active) = MEANINGFUL_TARGET - 1

C7_Step ==
    \A w \in Workers :
        (/\ task[w].op = "maybe" /\ task[w].pc = "write"
         /\ task[w].active # None
         /\ task'[w].pc \notin {"write", "episode"})
        => /\ Len(summaries') = Len(summaries)
           /\ \A i \in 1..Len(summaries) :
                 /\ summaries'[i].id = summaries[i].id
                 /\ summaries'[i].range_start_event_id
                       = summaries[i].range_start_event_id
                 /\ summaries'[i].is_active = summaries[i].is_active
                 /\ summaries[i].is_active
                       => summaries'[i].range_end_event_id
                             = EndEventId(task[w].turns)
           /\ task'[w].pc = "done" /\ task'[w].ret = "true"

\* C7: a maybe_update_summary call that reached the target with an active
\* row and detected no topic shift updates that row in place: ids, range
\* starts and active flags stay, the active row's range end becomes the end
\* of the collected range, no row is added, and the call returns True.
C7_RollingUpdateInPlace == [][C7_Step]_vars

\* C8: once a maybe_update_summary call that detected a topic shift is past
\* its summary writes, the row it read is inactive with text and range as
\* read, and exactly one row is active: a new one, built from the collected
\* turns alone and covering the collected range.
C8_ShiftArchivesAndReplaces ==
    \A w \in Workers :
        (/\ task[w].op = "maybe"
         /\ task[w].wrote \in {"archive", "topic_shift"}
         /\ task[w].pc \in {"sync", "done"})
        => LET old == task[w].active[1]
               new == summaries[Len(summaries)]
           IN  /\ ~summaries[old.id].is_active
               /\ summaries[old.id].summary = old.summary
               /\ summaries[old.id].range_start_event_id = old.range_start_event_id
               /\ summaries[old.id].range_end_event_id = old.range_end_event_id
               /\ ActiveIds = {Len(summaries)}
               /\ Len(summaries) > old.id
               /\ new.summary.prior = None
               /\ Covers(new.summary)
                     \subseteq {task[w].turns[k].user_id : k \in 1..Len(task[w].turns)}
               /\ new.range_start_event_id = StartEventId(task[w].turns)
               /\ new.range_end_event_id = EndEventId(task[w].turns)

C9_DebounceStep ==
    \A w \in Workers :
        (/\ StartsMaybe(w)
         /\ task'[w].active # None
         /\ now - task'[w].active[1].meta["last_summary_write_at"]
               < MIN_SUMMARY_UPDATE_SECONDS)
            => ReturnsFalseUnwritten(w)

C9_WriteRecords ==
    \A i \in 1..Len(summaries') :
        (\/ i > Len(summaries)
         \/ [summaries'[i] EXCEPT !.is_active = summaries[i].is_active]
               # summaries[i])
            => summaries'[i].meta["last_summary_write_at"] = now

\* C9: a maybe_update_summary call that reads an active row written less
\* than MIN_SUMMARY_UPDATE_SECONDS ago returns False and writes nothing,
\* whatever has accumulated; and every row a step inserts or rewrites (other
\* than by archiving it) carries the time of that step as its last write.
C9_DebounceAndTimestamp == [][C9_DebounceStep /\ C9_WriteRecords]_vars

\* a debounced call that had a full target of meaningful turns waiting
C9_Witness ==
    /\ task[Main].op = "maybe" /\ task[Main].pc = "done"
    /\ task[Main].ret = "false"
    /\ _should_debounce_summary(task[Main].active)
    /\ PendingMeaningful(task[Main].active) >= MEANINGFUL_TARGET

C10_NoFailure ==
    \A w \in Workers :
        (task[w].op = "upsert" /\ task[w].pc = "done"
            /\ UpsertValid(task[w].args[1])) => task[w].ret = "id"

C10_WriteStep ==
    \A w \in Workers :
        (task[w].op = "upsert" /\ task[w].pc = "uwrite" /\ task'[w].pc = "done"
            /\ task[w].emb = NoVec)
        => IF task[w].row = 0
           THEN /\ Len(master') = Len(master) + 1
                /\ master'[Len(master')].embedding = NoVec
                /\ master'[Len(master')].text = Strip(task[w].args[1].text)
                /\ master'[Len(master')].reinforcement_count = 1
           ELSE /\ Len(master') = Len(master)
                /\ master'[task[w].row].embedding = master[task[w].row].embedding
                /\ master'[task[w].row].reinforcement_count
                      = master[task[w].row].reinforcement_count + 1

\* C10: an upsert whose embedding attempt failed (or was disabled) does not
\* fail; it inserts a new item without embedding, and on an existing item it
\* leaves the stored embedding as it was and still reinforces.
C10_EmbeddingFailureKeepsVector == [](C10_NoFailure) /\ [][C10_WriteStep]_vars

\* a repeat upsert, embedding requested and failed, on an item that has one
C10_Witness ==
    /\ task[Main].op = "upsert" /\ task[Main].pc = "done"
    /\ task[Main].wrote = "update"
    /\ task[Main].args[1].embed /\ task[Main].emb = NoVec
    /\ master[task[Main].row].embedding # NoVec

\* an upsert input the contract rejects: no owner, empty text, or a bucket,
\* status or stability outside the closed sets
RejectedInput(a) ==
    \/ a.user_id = ""
    \/ Strip(a.text) = <<>>
    \/ StripUpper(a.bucket) \notin BUCKETS
    \/ StripLowerOr(a.status, "active") \notin STATUSES
    \/ StripLowerOr(a.stability, "med") \notin STABILITIES

C11_NothingReached ==
    \A w \in Workers :
        (task[w].op = "upsert" /\ RejectedInput(task[w].args[1]))
            => /\ task[w].pc = "done" /\ task[w].ret = "raised"
               /\ task[w].called = {} /\ task[w].wrote = "none"

C11_RejectStep ==
    \A w \in Workers :
        (task[w].pc = "idle" /\ task'[w].op = "upsert"
            /\ RejectedInput(task'[w].args[1]))
            => UNCHANGED <<master, evidence, upserted>>

\* C11: an upsert_master_item call with a missing owner, an empty text or an
\* invalid bucket, status or stability ends in a validation error having
\* reached neither the Embedding Service nor the store: no select, no
\* insert, no update, and the tables are as they were.
C11_InvalidInputTouchesNothing == [](C11_NothingReached) /\ [][C11_RejectStep]_vars

\* a rejected call made while the store holds an item it could have matched
C11_Witness ==
    /\ task[Main].op = "upsert" /\ task[Main].pc = "done"
    /\ task[Main].ret = "raised"
    /\ task[Main].args[1].status = "gone"
    /\ \E i \in 1..Len(master) :
          /\ master[i].user_id = task[Main].args[1].user_id
          /\ master[i].bucket = task[Main].args[1].bucket
          /\ SameText(master[i].text, task[Main].args[1].text)

\* C12: no step removes or changes an evidence row: the rows present before
\* a step are present, unchanged and in place after it, thread deletion
\* included.
C12_EvidenceAppendOnly ==
    [][/\ Len(evidence') >= Len(evidence)
       /\ \A i \in 1..Len(evidence) : evidence'[i] = evidence[i]]_vars

PositiveWeight(w) == w[1] = "num" /\ w[2] > 0

HasPointer(e) == e.thread_id # "" \/ e.event_id # 0 \/ e.summary_id # 0

\* C13: an add_master_evidence call given no thread, event or summary id
\* is rejected and inserts nothing; every stored evidence row has at least
\* one pointer and a strictly positive weight.
C13_PointerAndPositiveWeight ==
    /\ \A w \in Workers :
          (task[w].op = "evidence" /\ ~HasPointer(task[w].args[1]))
              => task[w].ret = "raised" /\ task[w].wrote = "none"
    /\ \A i \in 1..Len(evidence) :
          HasPointer(evidence[i]) /\ PositiveWeight(evidence[i].weight)

\* the tasks of the pool, submitted or running, name committed events only
C14_TasksOfCommittedEvents ==
    /\ \A i \in 1..Len(queue) : queue[i].event_id \in 1..Len(events)
    /\ \A w \in Workers :
          task[w].op \in {"summary_update", "auto_event_capture",
                          "master_memory_extractor"}
             => task[w].args[1].event_id \in 1..Len(events)

C14_Step ==
    /\ events' # events
          => /\ events' = Append(events, [actor |-> call'.actor,
                                          content |-> call'.content])
             /\ call'.ret = "id" /\ call'.id = Len(events')
             /\ queue' = queue \o call'.dispatched
    /\ call'.ret = "raised" /\ call' # call
          => events' = events /\ queue' = queue
    /\ task' # task => call' = call /\ events' = events

\* C14: a committed add_event returns the id of the new event and submits
\* its tasks; an add_event whose insert did not commit submits nothing; and
\* no step of a side-effect task, its failure included, changes what the
\* caller of add_event got or the events stored.
C14_SideEffectsContained ==
    [](C14_TasksOfCommittedEvents) /\ [][C14_Step]_vars

\* the summarizer task submitted for the latest event has raised; the
\* add_event call that submitted it has returned the id of that event
C14_Witness ==
    /\ call.ret = "id" /\ call.id = Len(events)
    /\ call.dispatched # <<>> /\ call.dispatched[1].name = "summary_update"
    /\ queue = <<>>
    /\ \E w \in Workers : task[w].op = "maybe" /\ task[w].ret = "raised"

\* C15: a summarizer call that has decided to write (it is past the debounce
\* and the turn count, with its turns selected) never ends in the exception
\* of a failed embed_text call: it writes the row and returns True.
C15_EmbeddingFailureNeverAborts ==
    \A w \in Workers :
        task[w].op \in {"maybe", "force"} /\ task[w].pc = "done"
        /\ task[w].turns # <<>>
           => task[w].ret = "true"

C16_Step ==
    \A w \in Workers :
        /\ task[w].op = "maybe" /\ task[w].pc = "write"
        /\ task'[w] # task[w]
        /\ task'[w].check = "failed"
        => /\ Len(summaries') = Len(summaries)
           /\ \A i \in 1..Len(summaries) :
                 summaries'[i].is_active = summaries[i].is_active
           /\ \E i \in 1..Len(summaries) :
                 /\ task[w].active = Some(summaries[i])
                 /\ summaries'[i].range_end_event_id = EndEventId(task[w].turns)
                 /\ summaries'[i].meta.reason = "rolling_update"
           /\ task'[w].ret = "true"

\* C16: when an embed_text call of the topic-shift decision fails, the call
\* archives nothing and inserts nothing, and it carries the active row
\* forward: the row it read gets the rolling update and the call returns True.
C16_FailedShiftCheckMeansRollingUpdate == [][C16_Step]_vars

\* the force_update_summary call of worker w has ended with a write of the
\* kind the row it read calls for
ForcedWriteDone(w) ==
    /\ task[w].ret = "true"
    /\ task[w].wrote = IF task[w].active = None THEN "forced_init"
                       ELSE "forced_update"
    /\ task[w].active # None
          => \E i \in 1..Len(summaries) :
                /\ summaries[i].id = task[w].active[1].id
                /\ summaries[i].is_active
                /\ summaries[i].meta.reason = "forced_promote_update"

\* C17: a force_update_summary call that found at least one event after the
\* range end of the active row (any event, if there is no active row) ends
\* with a summary written and True returned: an insert if no row was active,
\* else an update of the active row in place.
C17_ForceAlwaysWrites ==
    \A w \in Workers :
        /\ task[w].op = "force" /\ task[w].pc = "done"
        /\ _fetch_events_since(SinceOf(task[w].active)) # <<>>
        => ForcedWriteDone(w)

\* the master items keyed by the identity of the conversation
ThreadItems ==
    {i \in 1..Len(master) : KeyOfRow(master[i]) = KeyOfArgs(SyncArgs([id |-> 0, summary |-> <<>>]))}

C18_OneThreadItem == Cardinality(ThreadItems) <= 1

C18_SyncStep ==
    \A w \in Workers :
        task[w].pc = "syncwrite" /\ task'[w] # task[w]
        => /\ evidence' = Append(evidence, Last(evidence'))
           /\ Last(evidence').summary_id \in ActiveIds
           /\ Last(evidence').master_item_id \in ThreadItems'
           /\ IF ThreadItems = {}
              THEN Len(master') = Len(master) + 1
              ELSE /\ Len(master') = Len(master)
                   /\ \E i \in ThreadItems :
                         master'[i].reinforcement_count
                            = master[i].reinforcement_count + 1

\* C18: there is never more than one master item keyed by the conversation;
\* a sync that finds the item increments its reinforcement_count and adds
\* no row, and every sync appends one evidence row that points at the item
\* and at the summary active at that moment.
C18_SyncIdempotent == [](C18_OneThreadItem) /\ [][C18_SyncStep]_vars

\* the place of a context message in the order: the three blocks, then the
\* raw events
Rank(m) ==
    IF m.role # "system" THEN 4
    ELSE CASE m.content[1] = "Active summary:" -> 1
           [] m.content[1] = "Relevant long-term memory:" -> 2
           [] m.content[1] = "User reaction signals:" -> 3
           [] OTHER -> 0

RawCount(ctx) == Cardinality({i \in 1..Len(ctx) : Rank(ctx[i]) = 4})

\* C19: in the context just built, every message comes before the messages
\* of higher rank (summary, semantic recall, reactions, raw events), there
\* is at most one block of each kind, and the raw part is the newest events
\* in chronological order, as many as the clamped short-term limit allows.
C19_ContextOrder ==
    reply.route \in {"memory-context", "chat-asked"} =>
        LET ctx == reply.context
            n == RawCount(ctx)
        IN  /\ \A i, j \in 1..Len(ctx) :
                  i < j => /\ Rank(ctx[i]) <= Rank(ctx[j])
                           /\ Rank(ctx[i]) = Rank(ctx[j]) => Rank(ctx[i]) = 4
            /\ \A i \in 1..Len(ctx) : Rank(ctx[i]) # 0
            /\ n = Min2(Len(events),
                        _normalize_limit(reply.limit, DEFAULT_SHORT_TERM_LIMIT,
                                         SHORT_TERM_CAP))
            /\ \A k \in 1..n :
                  /\ ctx[Len(ctx) - n + k].role = events[Len(events) - n + k].actor
                  /\ ctx[Len(ctx) - n + k].content
                        = <<events[Len(events) - n + k].content>>

\* a context with the three blocks and three raw events
C19_Witness ==
    /\ reply.route = "memory-context"
    /\ Len(reply.context) = 6
    /\ Rank(reply.context[1]) = 1
    /\ Rank(reply.context[2]) = 2
    /\ Rank(reply.context[3]) = 3
    /\ reply.context[4].content # reply.context[5].content

\* the blocks of the context built for the chat request
Blocks(ctx) == {ctx[i] : i \in {j \in 1..Len(ctx) : ctx[j].role = "system"}}

\* C20: every summary, semantic-recall or reaction block of the context
\* built for a chat request is among the messages handed to the completion
\* service.
C20_BlocksReachCompletion ==
    reply.route = "chat-asked" =>
        \A b \in Blocks(reply.context) :
            \E i \in 1..Len(reply.msgs) : reply.msgs[i] = b

\* the step of a request that builds a reply context
BuildsContext ==
    reply = NoReply /\ reply'.route \in {"memory-context", "chat-asked"}

HasBlock(ctx, rank) == \E i \in 1..Len(ctx) : Rank(ctx[i]) = rank

C21_Step ==
    BuildsContext =>
        /\ HasBlock(reply'.context, 1)
              <=> (reply'.text \in {"recap", "both"} /\ ActiveIds' # {})
        /\ HasBlock(reply'.context, 2)
              <=> (reply'.text \in {"recall", "both"} /\ SemanticRows' # {})

\* C21: the context built for a latest message holds the summary block
\* exactly when the message matches a recap cue and an active summary
\* exists, and the semantic-recall block exactly when it matches a remember
\* cue and the owner has active master items; each cue decides its own block
\* only.
C21_CuesIndependent == [][C21_Step]_vars

\* a recap-only message: summary block, no recall block although the owner
\* has active items
C21_Witness ==
    /\ reply.route = "memory-context"
    /\ reply.text = "recap"
    /\ HasBlock(reply.context, 1)
    /\ ~HasBlock(reply.context, 2)
    /\ SemanticRows # {}

C22_Step ==
    (reply = NoReply /\ reply'.route = "memory-context") =>
        UNCHANGED <<events, reactions, summaries, master, evidence, threads,
                    queue, task, upserted, call, now>>

\* C22: a request that only builds the reply context leaves events,
\* reactions, summaries, master items and evidence as they were and submits
\* no side-effect task, whatever the latest message, the limit and the
\* reaction identity.
C22_ContextBuildReadsOnly == [][C22_Step]_vars

\* a context with a reaction block was built over a store holding
\* reactions, a summary, a master item and its evidence
C22_Witness ==
    /\ reply.route = "memory-context"
    /\ HasBlock(reply.context, 3)
    /\ reactions # {}
    /\ summaries # <<>>
    /\ master # <<>>
    /\ evidence # <<>>

\* the texts of the semantic-recall block of a context
RecallTexts(ctx) ==
    UNION {ctx[i].content[2] : i \in {j \in 1..Len(ctx) : Rank(ctx[j]) = 2}}

\* the rows returned belong to the requested owner and have the requested
\* status; the recall block holds texts of active items of the thread owner
OwnRowsOnly ==
    /\ reply.route \in {"list", "search"} =>
          \A i \in reply.rows :
              /\ i \in 1..Len(master)
              /\ master[i].user_id = reply.req[1].user_id
              /\ reply.req[1].status = " Active" => master[i].status = "active"
              /\ reply.req[1].status = "deprecated" => master[i].status = "deprecated"
              /\ reply.route = "search" => master[i].embedding # NoVec
    /\ reply.route = "memory-context" =>
          \A t \in RecallTexts(reply.context) :
              \E i \in 1..Len(master) :
                  /\ master[i].text = t
                  /\ master[i].user_id = THREAD_USER
                  /\ master[i].status = "active"

ExtractionRound(w) ==
    /\ task[w].op = "master_memory_extractor"
    /\ task[w].pc = "claims"
    /\ task[w].turns # <<>>
    /\ task'[w] # task[w]

\* the candidate has text, no denylisted phrase and a confidence that is a
\* number of at least `floor` hundredths
Survives(c, floor) ==
    /\ Strip(c.text) # <<>>
    /\ \A i \in 1..Len(c.text) : c.text[i] \notin BANNED_SUBSTRINGS
    /\ c.kind = "num"
    /\ c.confidence >= floor

KnownBucket(c) == c.bucket = "" \/ c.bucket \in BUCKETS

C24_Step ==
    \A w \in Workers :
        ExtractionRound(w) =>
            /\ task'[w].pc = "claims"
            /\ task'[w].turns = Tail(task[w].turns)
            /\ (Survives(Head(task[w].turns), 80) /\ KnownBucket(Head(task[w].turns)))
                  => /\ master' # master
                     /\ Len(evidence') = Len(evidence) + 1

\* C24: whatever a candidate of an extraction run contains, its round ends
\* with the run going on to the next candidate, and a candidate that passes
\* the filters and names a valid bucket is written in its round with its
\* evidence; so the candidates written are those that pass individually.
C24_FailedCandidateNeverEndsRun == [][C24_Step]_vars

C25_Step ==
    \A w \in Workers :
        ExtractionRound(w) =>
            LET c == Head(task[w].turns)
            IN  /\ ~Survives(c, 80) => UNCHANGED <<master, evidence>>
                /\ \A i \in 1..Len(master') :
                      (IF i > Len(master) THEN master'[i].embedding # NoVec
                       ELSE master'[i].embedding # master[i].embedding)
                          => Survives(c, 90)

\* C25: a round of the extraction loop changes master items and evidence
\* only for a candidate with non-empty text, no denylisted phrase and a
\* confidence of at least 0.80, and it stores an embedding only for a
\* candidate whose confidence is at least 0.90.
C25_OnlySurvivorsWritten == [][C25_Step]_vars

\* the text between its first and its last piece that is no blank
FirstInk(text) == CHOOSE i \in 1..Len(text) :
                     text[i] # " " /\ \A j \in 1..(i - 1) : text[j] = " "
LastInk(text) == CHOOSE i \in 1..Len(text) :
                    text[i] # " " /\ \A j \in (i + 1)..Len(text) : text[j] = " "
Trimmed(text) ==
    IF \A i \in 1..Len(text) : text[i] = " " THEN <<>>
    ELSE SubSeq(text, FirstInk(text), LastInk(text))

\* the phrases of a text, read without regard to case
IdentityIn(t) ==
    \E i \in 1..Len(t) :
        \/ t[i] \in {"my name is", "MY NAME IS"}
        \/ t[i] = "call me" /\ i < Len(t) /\ t[i + 1] = " "
PlanIn(t) == \E i \in 1..Len(t) : t[i] = "plan"
PreferenceIn(t) == \E i \in 1..Len(t) : t[i] = "i like"
IsTrivial(t) == t \in {<<"ok">>, <<"OK">>}

\* the score the priority order gives a user text whose trimmed form is t
ByPriority(t) ==
    IF t = <<>> \/ IsTrivial(t) THEN 0
    ELSE IF IdentityIn(t) THEN 5
    ELSE IF PlanIn(t) THEN 3
    ELSE IF PreferenceIn(t) THEN 1
    ELSE IF TextLen(t) >= 120 THEN 1
    ELSE 0

\* C26: a user text that contains an identity phrase scores 5 whatever
\* surrounds the phrase, and every user text gets the score of the first
\* rule that matches in the order trivial, identity, plan, preference,
\* length, else 0.
C26_IdentityScoresFive ==
    (call.ret = "scored" /\ call.actor = "user") =>
        /\ IdentityIn(call.content) => call.importance_score = 5
        /\ call.importance_score = ByPriority(Trimmed(call.content))

\* C26 as amended: a user text whose trimmed form contains an identity
\* phrase scores 5 whatever surrounds the phrase, and every user text gets
\* the score of the first rule that matches its trimmed form.
C26_TrimmedIdentityScoresFive ==
    (call.ret = "scored" /\ call.actor = "user") =>
        /\ IdentityIn(Trimmed(call.content)) => call.importance_score = 5
        /\ call.importance_score = ByPriority(Trimmed(call.content))

\* an identity phrase together with a plan and 120 more characters
C26_Witness ==
    /\ call.ret = "scored"
    /\ call.actor = "user"
    /\ call.content = <<"plan", "MY NAME IS", "pad">>
    /\ call.importance_score = 5

\* C27: the scorer returns 0, 1, 3 or 5; 0 for every actor other than the
\* user, 0 for a text whose trimmed form is in the trivial set in any case,
\* and 0 for an empty text.
C27_ScoreRange ==
    call.ret = "scored" =>
        /\ call.importance_score \in {0, 1, 3, 5}
        /\ call.actor # "user" => call.importance_score = 0
        /\ IsTrivial(Trimmed(call.content)) => call.importance_score = 0
        /\ Trimmed(call.content) = <<>> => call.importance_score = 0

\* the assistant said an identity phrase; a user text was trivial once trimmed
C27_Witness ==
    /\ call.ret = "scored"
    /\ \/ call.actor = "assistant" /\ IdentityIn(call.content)
       \/ call.actor = "user" /\ call.content = <<" ", "OK", " ">>
    /\ call.importance_score = 0

\* the names of the tasks the last add_event call submitted
DispatchedNames == {call.dispatched[i].name : i \in 1..Len(call.dispatched)}

\* the content holds a project / long-running cue
HasProjectCue(content) == content = "plan"

\* C28: the immediate capture task is submitted for an event only if the
\* event is a user event with a score of at least 5 whose content matches a
\* project cue, and the extraction worker is submitted exactly for the user
\* events with a score of at least 5.
C28_CaptureNeedsScoreAndCue ==
    call.ret = "id" =>
        /\ "auto_event_capture" \in DispatchedNames
              => /\ call.actor = "user"
                 /\ call.importance_score >= 5
                 /\ HasProjectCue(call.content)
        /\ "master_memory_extractor" \in DispatchedNames
              <=> (call.actor = "user" /\ call.importance_score >= 5)

\* C28 as amended: the immediate capture task is submitted for an event
\* only if the event is a user event that has a score of at least 5 or
\* whose content matches a project cue, and the extraction worker is
\* submitted exactly for the user events with a score of at least 5.
C28_CaptureNeedsScoreOrCue ==
    call.ret = "id" =>
        /\ "auto_event_capture" \in DispatchedNames
              => /\ call.actor = "user"
                 /\ call.importance_score >= 5 \/ HasProjectCue(call.content)
        /\ "master_memory_extractor" \in DispatchedNames
              <=> (call.actor = "user" /\ call.importance_score >= 5)

\* a user event of score 3 with a project cue: captured, not extracted
C28_Witness ==
    /\ call.ret = "id"
    /\ call.actor = "user"
    /\ call.importance_score = 3
    /\ DispatchedNames = {"auto_event_capture"}

\* C29: the score stored with an event is an integer from 0 to 5, whether
\* add_event computed it or the caller supplied it.
C29_ScoreBetweenZeroAndFive ==
    call.ret = "id" => call.importance_score \in 0..5

\* C30: add_event calls embed_text for every event with a score of at least
\* 5, whatever embed flag the caller passed; add_event never ends in the
\* exception of embed_text; and when embed_text failed and the insert
\* committed, the event is stored, its id is returned and the tasks of its
\* actor and score are submitted, as after a successful embedding.
C30_ForcedEmbeddingNeverAborts ==
    call.ret \in {"id", "raised"} =>
        /\ call.importance_score >= 5 => call.embed
        /\ call.raised_in # "embed_text"
        /\ (call.ret = "id" /\ call.embed /\ call.emb = NoVec) =>
              /\ call.id = Len(events)
              /\ events[call.id] = [actor |-> call.actor, content |-> call.content]
              /\ "master_memory_extractor" \in DispatchedNames
                    <=> (call.actor = "user" /\ call.importance_score >= 5)
              /\ "auto_event_capture" \in DispatchedNames
                    <=> (call.actor = "user"
                         /\ (call.importance_score >= 5 \/ HasProjectCue(call.content)))
              /\ "summary_update" \in DispatchedNames <=> call.actor = "assistant"

\* an event of score 5 was stored without embedding after embed_text failed,
\* and its two tasks were submitted
C30_Witness ==
    /\ call.ret = "id"
    /\ call.importance_score >= 5
    /\ call.embed /\ call.emb = NoVec
    /\ Len(call.dispatched) = 2
    /\ call.id = Len(events)

\* the concatenation fallback over what the call at hand passed to
\* _build_candidate_summary: the prior summary (none for a new episode) and
\* the turn lines
FallbackOf(t) ==
    [src |-> "fallback",
     prior |-> IF t.pc = "episode" THEN None ELSE PriorCover(PriorSummary(t.active)),
     lines |-> TurnLines(t.turns)]

WritesCandidate(w) ==
    /\ task[w].op \in {"maybe", "force"}
    /\ task[w].pc \in {"write", "episode"}
    /\ task'[w] # task[w]

C31_Step(w) ==
    (WritesCandidate(w) /\ task'[w].llm = "raised") =>
        LET t == task[w]
            u == task'[w]
            fresh == t.active = None \/ t.pc = "episode"
        IN  \/ /\ u.ret = "raised"
               /\ summaries' = summaries
               /\ (t.op = "maybe" /\ ~fresh) => u.check = "failed"
            \/ /\ u.wrote = "archive" /\ u.pc = "episode"
               /\ ~fresh /\ u.check = "ok"
               /\ summaries' = _archive_active_summary
            \/ /\ u.wrote \in {"init", "topic_shift", "forced_init"} /\ u.pc = "sync"
               /\ fresh
               /\ Len(summaries') = Len(summaries) + 1
               /\ SubSeq(summaries', 1, Len(summaries)) = summaries
               /\ Last(summaries').summary = FallbackOf(t)
               /\ Last(summaries').is_active
            \/ /\ u.wrote \in {"rolling_update", "forced_update"}
               /\ ~fresh
               /\ Len(summaries') = Len(summaries)
               /\ \A i \in 1..Len(summaries) :
                     IF summaries[i].is_active
                     THEN /\ summaries'[i].summary = FallbackOf(t)
                          /\ summaries'[i].is_active
                     ELSE summaries'[i] = summaries[i]

\* C31: when the Completion Service fails while a summary is produced, the
\* candidate is the concatenation fallback (the prior summary, if any, then
\* the new turn lines) and the call goes on to the same insert / update /
\* archive decision; the completion failure never makes the call raise (a
\* raise comes from an embedding call).
C31_CompletionFailureFallsBack == [][\A w \in Workers : C31_Step(w)]_vars

\* a rolling update whose text is the fallback over a prior summary
C31_Witness ==
    /\ task[Main].op = "maybe" /\ task[Main].llm = "raised"
    /\ task[Main].wrote = "rolling_update" /\ task[Main].ret = "true"
    /\ \E i \in ActiveIds :
          /\ summaries[i].summary.src = "fallback"
          /\ summaries[i].summary.prior # None
          /\ summaries[i].summary.lines # <<>>

\* the reaction rows of one (event, owner) pair among the rows
PairRows(rows, e, user) == {x \in rows : x.event_id = e /\ x.user_id = user}

ReactionsWellFormed(rows) ==
    \A x \in rows :
        /\ x.event_id \in 1..Len(events)
        /\ events[x.event_id].actor = "assistant"
        /\ Cardinality(PairRows(rows, x.event_id, x.user_id)) = 1

\* a reaction request has been handled up to its store statement
HandlesReaction(w) ==
    /\ task[w].pc = "idle" /\ task[w].op = "idle"
    /\ task'[w].op \in {"react", "brain"}

C32_Step(w) ==
    HandlesReaction(w) =>
        LET u == task'[w]
            e == u.n
            r == u.args
            mine == PairRows(reactions', e, THREAD_USER)
            rest == reactions \ PairRows(reactions, e, THREAD_USER)
        IN  IF e \notin 1..Len(events)
            THEN /\ u.ret = "not_found" /\ u.pc = "done"
                 /\ UNCHANGED <<events, summaries, master, evidence, reactions,
                                threads, queue>>
            ELSE IF events[e].actor # "assistant"
            THEN /\ u.ret = "not_assistant" /\ u.pc = "done"
                 /\ UNCHANGED <<events, summaries, master, evidence, reactions,
                                threads, queue>>
            ELSE /\ u.ret \notin {"not_found", "not_assistant", "raised"}
                 /\ reactions' \ mine = rest
                 /\ mine = IF r = None THEN {}
                           ELSE {[event_id |-> e, user_id |-> THREAD_USER,
                                  reaction |-> r[1]]}

\* C32: reaction rows exist only on assistant events, at most one per
\* (event, owner); a request on a missing event (404) or on a user event
\* (400) is rejected and changes nothing; one on an assistant event leaves
\* exactly the new value for the pair, or no row when the value is absent.
C32_ReactionsOnAssistantEventsOnly ==
    [][ReactionsWellFormed(reactions') /\ \A w \in Workers : C32_Step(w)]_vars

\* "heart" has replaced the "brain" that forced the summary, on the thread's
\* only assistant event
C32_Witness ==
    /\ task[Main].op = "react" /\ task[Main].args = Some("heart")
    /\ task[Main].ret = "none"
    /\ summaries # <<>>
    /\ Cardinality({i \in 1..Len(events) : events[i].actor = "assistant"}) = 1
    /\ reactions = {[event_id |-> task[Main].n, user_id |-> THREAD_USER,
                     reaction |-> "heart"]}

\* the reaction request of worker w gets its response, or its exception
AnswersReaction(w) ==
    /\ task[w].pc = "done" /\ task[w].op \in {"react", "force"}
    /\ task'[w].pc = "idle"
    /\ reply'.route # "none"

BrainStored == \E x \in reactions : x.reaction = "brain" /\ x.user_id = THREAD_USER

\* force_update_summary is called for the reaction "brain" stored on an
\* assistant event, and for nothing else
C33_Trigger(w) ==
    /\ HandlesReaction(w) =>
          (task'[w].op = "brain" <=>
              /\ task'[w].n \in 1..Len(events)
              /\ events[task'[w].n].actor = "assistant"
              /\ task'[w].args = Some("brain"))
    /\ (task[w].op # "force" /\ task'[w].op = "force") =>
          (task[w].op = "brain" /\ BrainStored)

\* what the forced summarization raised stays inside the request
C33_Contained(w) ==
    (AnswersReaction(w) /\ task[w].op = "force") =>
        /\ reply'.route = "reaction"
        /\ BrainStored'

\* C33: storing "brain" on an assistant event calls force_update_summary
\* (no other value and no removal does); an error that call raises does not
\* reach the reaction request, and the reaction stays stored.
C33_ForcedSummaryErrorContained ==
    [][\A w \in Workers : C33_Trigger(w) /\ C33_Contained(w)]_vars

\* n turns have been stored and the run after the last reply has ended
QuietAfter(n) == Quiet /\ Len(events) = 2 * n

\* C34: after 10 meaningful turns on one topic the conversation has exactly
\* one summary row, active, with reason init; after 10 further meaningful
\* turns on another topic it has exactly two rows, the first archived and
\* the second active.
C34_TenTurnsThenTenMore ==
    /\ QuietAfter(10) =>
          /\ Len(summaries) = 1
          /\ summaries[1].is_active
          /\ summaries[1].meta.reason = "init"
    /\ QuietAfter(20) =>
          /\ Len(summaries) = 2
          /\ ~summaries[1].is_active
          /\ summaries[2].is_active

IsSummaryTask(q) == q.name = "summary_update"

\* the event a summary task was submitted for is a stored assistant event
SeesItsEvent(q) ==
    /\ q.event_id \in 1..Len(events)
    /\ events[q.event_id].actor = "assistant"

SummaryTasksSeeTheirEvents ==
    /\ \A i \in 1..Len(queue) : IsSummaryTask(queue[i]) => SeesItsEvent(queue[i])
    /\ \A w \in Workers :
          task[w].op = "summary_update" => SeesItsEvent(task[w].args[1])

\* an add_event call has returned or raised
AddEventEnds == call' # call \/ events' # events

C35_Step ==
    AddEventEnds =>
        LET new == SubSeq(queue', Len(queue) + 1, Len(queue'))
            sums == SelectSeq(new, IsSummaryTask)
        IN  /\ SubSeq(queue', 1, Len(queue)) = queue
            /\ IF call'.ret = "id" /\ call'.actor = "assistant"
               THEN /\ Len(sums) = 1
                    /\ sums[1].event_id = call'.id
                    /\ Len(events') = Len(events) + 1
                    /\ call'.id = Len(events')
                    /\ events'[call'.id].actor = "assistant"
               ELSE sums = <<>>

\* C35: maybe_update_summary is submitted once after every committed
\* assistant event and never after a user event or a failed insert, and
\* only once the event is stored, so that the run can read it.
C35_SummaryTaskAfterAssistantCommit ==
    [][C35_Step /\ SummaryTasksSeeTheirEvents']_vars

\* the run submitted for the assistant event just stored has started
C35_Witness ==
    /\ call.actor = "assistant" /\ call.ret = "id"
    /\ call.id = Len(events)
    /\ queue = <<>>
    /\ \E w \in Workers : task[w].op = "maybe" /\ task[w].pc = "done"

\* the target is reached after the range end and the debounce window is over
DueForSummary(active) ==
    /\ PendingMeaningful(active) >= MEANINGFUL_TARGET
    /\ ~_should_debounce_summary(active)

\* a call that is due goes on to its write
C36_Starts(w) ==
    (StartsMaybe(w) /\ DueForSummary(task'[w].active)) => task'[w].pc = "write"

\* the write of a maybe_update_summary call leaves an active row whose
\* range end lies after the one the call read
C36_Advances(w) ==
    (/\ task[w].op = "maybe" /\ task[w].pc \in {"write", "episode"}
     /\ task'[w].pc \notin {"write", "episode"})
    => /\ task'[w].ret # "raised"
       /\ \E i \in 1..Len(summaries') :
             /\ summaries'[i].is_active
             /\ summaries'[i].range_end_event_id > SinceOf(task[w].active)

\* C36: whenever the events after the active range end hold at least
\* MEANINGFUL_TARGET meaningful turns, wherever they lie among the other
\* events, and the debounce window is over, maybe_update_summary writes a
\* summary and advances the range end.
C36_DueSummaryIsWritten ==
    [][\A w \in Workers : C36_Starts(w) /\ C36_Advances(w)]_vars

\* the user events of the meaningful turns between two range ends
MeaningfulBetween(prev, end) ==
    {i \in (prev + 1)..end :
        /\ events[i].actor = "user"
        /\ is_meaningful_turn(events[i].content, ReplyTo(i))}

\* the user events of the turns a call handed to its summary write
InputOf(t) == {t.turns[k].user_id : k \in 1..Len(t.turns)}

\* w leaves the write that moved the range end
AdvancesRange(w) ==
    /\ task[w].op \in {"maybe", "force"}
    /\ task[w].pc \in {"write", "episode"}
    /\ task'[w].pc \in {"sync", "done"}
    /\ task'[w].ret # "raised"

C37_Step(w) ==
    AdvancesRange(w) =>
        MeaningfulBetween(SinceOf(task[w].active), EndEventId(task[w].turns))
            \subseteq InputOf(task[w])

\* C37: every meaningful turn whose user event lies after the previous
\* range end and at or before the new range end is among the turns handed
\* to the summary write that moved the range end.
C37_NoMeaningfulTurnDropped == [][\A w \in Workers : C37_Step(w)]_vars

\* the latest range end among the rows (0 when there is none)
TopEnd(rows) ==
    IF rows = <<>> THEN 0
    ELSE CHOOSE e \in {rows[i].range_end_event_id : i \in 1..Len(rows)} :
            \A i \in 1..Len(rows) : rows[i].range_end_event_id <= e

\* the step changes the range of a row or adds a row
WritesRange ==
    \/ Len(summaries') # Len(summaries)
    \/ \E i \in 1..Len(summaries) :
          \/ summaries'[i].range_end_event_id # summaries[i].range_end_event_id
          \/ summaries'[i].range_start_event_id # summaries[i].range_start_event_id
          \/ summaries'[i].summary # summaries[i].summary

RangesOrdered(rows) ==
    \A i \in 1..Len(rows) :
        /\ 1 <= rows[i].range_start_event_id
        /\ rows[i].range_start_event_id <= rows[i].range_end_event_id
        /\ rows[i].range_end_event_id <= Len(events)

C38_Step ==
    /\ RangesOrdered(summaries')
    /\ WritesRange =>
          \A i \in 1..Len(summaries') :
              summaries'[i].is_active =>
                  summaries'[i].range_end_event_id > TopEnd(summaries)

\* C38: across calls of maybe_update_summary and force_update_summary that
\* follow one another, every write sets the active row's range end to an
\* event created after every range end written before, and every row's
\* range start is not later than its range end.
C38_RangeEndOnlyAdvances == [][C38_Step]_vars

C39_Step ==
    \A i \in 1..Len(summaries) :
        ~summaries[i].is_active =>
            /\ i <= Len(summaries')
            /\ summaries'[i] = summaries[i]

\* C39: a summary row that is archived stays as it is: no step changes its
\* text, range, embedding or metadata or makes it active again; the updates
\* write only to rows that are active when they write.
C39_ArchivedRowsAreFinal == [][C39_Step]_vars

\* a forced update has written to the active row of a thread that has an
\* archived row
C39_Witness ==
    /\ task[Main].op = "force" /\ task[Main].wrote = "forced_update"
    /\ \E i \in 1..Len(summaries) : ~summaries[i].is_active
    /\ \E j \in ActiveIds : summaries[j].meta.reason = "forced_promote_update"
====
